---------------------------- MODULE Spec2Model ----------------------------
(***************************************************************************)
(* A model of app/document_loader.py: DocumentLoader.load with its PDF     *)
(* extraction cascade (PyMuPDF text layer, Tesseract OCR, alternative      *)
(* loaders, placeholder) and DocumentLoader.get_page_count; and of the     *)
(* /upload handler of app/main.py with add_to_vector_store of              *)
(* app/vector_store.py.                                                    *)
(*                                                                         *)
(* Python strings are sequences of one-character strings, so that len,     *)
(* strip, split, join and replace are computed as Python computes them.    *)
(* A langchain Document is a record [page_content, metadata]; metadata is  *)
(* a record whose DOMAIN is the set of keys the code puts in the dict.     *)
(* The libraries the code calls (fitz, pytesseract, pdf2image, cv2, the    *)
(* langchain loaders, python-pptx, python-docx, PyPDF2) are environment:   *)
(* each call either raises or returns a value drawn from a small set.      *)
(***************************************************************************)
EXTENDS Integers, Sequences, FiniteSets, TLC

-----------------------------------------------------------------------------
(* Bounds of the model *)

\* pages of a PDF, images of a rasterization, documents of a library loader
MaxPages == 2
\* words of a .txt file
MaxWords == 1100
\* paragraphs of a .docx file
MaxParagraphs == 70
\* characters of a text handed to _clean_ocr_text on its own
MaxTextLen == 4
\* requests extracting PDFs side by side in one process
MaxRuns == 2
\* the most requests the /upload handler serves
MaxUploads == 2
\* the most chunks chunk_text makes of one document
MaxChunks == 2

-----------------------------------------------------------------------------
(* Python str *)

Whitespace == {" ", "\n", "\t"}

Rep(c, n) == [i \in 1..n |-> c]

SetMin(S) == CHOOSE x \in S : \A y \in S : x <= y
SetMax(S) == CHOOSE x \in S : \A y \in S : x >= y

\* str.strip()
Strip(s) ==
    LET keep == {i \in 1..Len(s) : s[i] \notin Whitespace}
    IN  IF keep = {} THEN <<>> ELSE SubSeq(s, SetMin(keep), SetMax(keep))

\* sep.join(parts)
RECURSIVE Join(_, _)
Join(sep, parts) ==
    IF parts = <<>> THEN <<>>
    ELSE IF Len(parts) = 1 THEN parts[1]
    ELSE parts[1] \o sep \o Join(sep, Tail(parts))

UpperCase == <<"A", "B", "C", "D", "E", "F", "G", "H", "I", "J", "K", "L", "M", "N", "O", "P",
      "Q", "R", "S", "T", "U", "V", "W", "X", "Y", "Z">>
LowerCase == <<"a", "b", "c", "d", "e", "f", "g", "h", "i", "j", "k", "l", "m", "n", "o", "p",
      "q", "r", "s", "t", "u", "v", "w", "x", "y", "z">>

\* str.lower()
Lower(s) ==
    [i \in 1..Len(s) |->
        IF \E k \in 1..Len(UpperCase) : UpperCase[k] = s[i]
        THEN LowerCase[CHOOSE k \in 1..Len(UpperCase) : UpperCase[k] = s[i]]
        ELSE s[i]]

\* os.path.splitext(p)[1]: from the last dot of the last path component,
\* unless that dot is the component's leading character
SplitExt(p) ==
    LET seps  == {i \in 1..Len(p) : p[i] = "/"}
        start == IF seps = {} THEN 1 ELSE SetMax(seps) + 1
        dots  == {i \in start..Len(p) : p[i] = "."}
        lead  == {i \in start..Len(p) : \A j \in start..i : p[j] = "."}
    IN  IF dots = {} \/ SetMax(dots) \in lead THEN <<>>
        ELSE SubSeq(p, SetMax(dots), Len(p))

Pdf  == <<".", "p", "d", "f">>
Pptx == <<".", "p", "p", "t", "x">>
Docx == <<".", "d", "o", "c", "x">>
Txt  == <<".", "t", "x", "t">>

-----------------------------------------------------------------------------
(* langchain Document *)

Document(content, meta) == [page_content |-> content, metadata |-> meta]

\* " ".join([doc.page_content for doc in documents])
TotalText(docs) == Join(<<" ">>, [i \in 1..Len(docs) |-> docs[i].page_content])

ErrorPrefix == <<"E", "r", "r", "o", "r", " ", "l", "o", "a", "d", "i", "n", "g", " ", "d", "o",
      "c", "u", "m", "e", "n", "t", ":", " ">>
ErrorSuffix == <<".", " ", "P", "l", "e", "a", "s", "e", " ", "e", "n", "s", "u", "r", "e", " ",
      "t", "h", "e", " ", "f", "i", "l", "e", " ", "i", "s", " ", "n", "o", "t", " ",
      "c", "o", "r", "r", "u", "p", "t", "e", "d", " ", "a", "n", "d", " ", "i", "s",
      " ", "i", "n", " ", "a", " ", "s", "u", "p", "p", "o", "r", "t", "e", "d", " ",
      "f", "o", "r", "m", "a", "t", ".">>

\* ErrorDocument with the bare message and no error key
ErrorDocumentUnmarked(path, e) ==
    Document(e, [page |-> 1, source |-> path])

\* the Document that load returns from its except clause; e is str(e)
ErrorDocument(path, e) ==
    Document(ErrorPrefix \o e \o ErrorSuffix,
             [page |-> 1, source |-> path, error |-> e])

PlaceholderMessage == <<"T", "h", "i", "s", " ", "a", "p", "p", "e", "a", "r", "s", " ", "t", "o", " ",
      "b", "e", " ", "a", " ", "s", "c", "a", "n", "n", "e", "d", " ", "d", "o", "c",
      "u", "m", "e", "n", "t", " ", "o", "r", " ", "i", "m", "a", "g", "e", "-", "b",
      "a", "s", "e", "d", " ", "P", "D", "F", ".", " ", "T", "o", " ", "e", "n", "a",
      "b", "l", "e", " ", "f", "u", "l", "l", " ", "t", "e", "x", "t", " ", "e", "x",
      "t", "r", "a", "c", "t", "i", "o", "n", ",", " ", "p", "l", "e", "a", "s", "e",
      " ", "i", "n", "s", "t", "a", "l", "l", " ", "T", "e", "s", "s", "e", "r", "a",
      "c", "t", " ", "O", "C", "R", ".", " ", "F", "o", "r", " ", "n", "o", "w", ",",
      " ", "y", "o", "u", " ", "c", "a", "n", " ", "s", "t", "i", "l", "l", " ", "u",
      "s", "e", " ", "t", "h", "e", " ", "d", "o", "c", "u", "m", "e", "n", "t", " ",
      "f", "o", "r", " ", "b", "a", "s", "i", "c", " ", "o", "p", "e", "r", "a", "t",
      "i", "o", "n", "s", ".">>

PlaceholderDocument(path) ==
    Document(PlaceholderMessage,
             [page |-> 1, source |-> path, method |-> "placeholder"])

UnsupportedPrefix == <<"U", "n", "s", "u", "p", "p", "o", "r", "t", "e", "d", " ", "f", "i", "l", "e",
      " ", "t", "y", "p", "e", ":", " ">>

-----------------------------------------------------------------------------
(* What the environment can hand to the code *)

\* the paths a DocumentLoader is constructed with
FilePaths ==
    { <<"a", ".", "p", "d", "f">>, <<"c", ".", "p", "p", "t", "x">>, <<"d", ".", "d", "o", "c", "x">>, <<"E", ".", "T", "X", "T">>, <<"f", ".", "c", "s", "v">>, <<"n", "o", "t", "e", "s">> }

\* str(e) of the exceptions the libraries raise
LibraryErrors == { <<"b", "a", "d", " ", "f", "i", "l", "e">> }

\* page.get_text() and page.get_text("text") of one page
GetTextResults ==
    { <<>>, <<" ", "\n">>, <<" ">> \o Rep("b", 25) \o <<"\n">>, Rep("e", 50),
      Rep("c", 51) }

\* page.get_text("dict") of one page: whether the dict has the key "blocks",
\* and the span texts of its blocks' lines
GetDictResults ==
    { [has_blocks |-> FALSE, spans |-> <<>>],
      [has_blocks |-> TRUE,  spans |-> <<>>],
      [has_blocks |-> TRUE,  spans |-> << <<"H", "i">>, <<"y", "o">> >>] }

\* page_content of the Documents a langchain loader returns
LoaderTexts == { <<>>, <<" ", "a", "b", "c", "d", "\n">>, Rep("q", 11) }

\* the lists of Documents a langchain PDF loader can return: n pages, all
\* with the same text or all but the first blank; metadata as the library
\* sets it (source and 0-based page), never a "method" key
LoaderDocuments(path) ==
    { [i \in 1..n |-> Document(IF i <= k THEN t ELSE <<>>,
                               [source |-> path, page |-> i - 1])] :
        n \in 0..MaxPages, k \in {1, MaxPages}, t \in LoaderTexts }

\* the lists of Documents the PyPDFLoader of line 85 can return: one Document
\* per page of the file, none for a file without pages
FallbackDocuments(path) ==
    { [i \in 1..n |-> Document(Rep("q", 11), [source |-> path, page |-> i - 1])] :
        n \in 0..MaxPages }

-----------------------------------------------------------------------------
(* State *)

VARIABLES
    file_path,      \* self.file_path
    extension,      \* self.extension
    call,           \* the method the caller invokes: "load" or "get_page_count"
    pc,             \* position of the call
    documents,      \* local `documents` of _load_pdf_with_ocr
    stage_docs,     \* local `documents` of the running stage function
    num_pages,      \* len(doc) of the fitz document / len(images)
    page_num,       \* loop variable of the stage's page loop
    doc_open,       \* the fitz document opened by the running function is open
    tesseract_cmd,  \* module global pytesseract.pytesseract.tesseract_cmd
    pil_images,     \* local `pil_images` of the OCR page being processed
    loader_idx,     \* position in `loaders` of _try_alternative_pdf_loaders
    exc,            \* str(e) of the exception raised into load's try body,
                    \* <<>> if there was none
    result,         \* what load returned to its caller
    raised,         \* an exception left the called method
    page_count,     \* what get_page_count returned: <<>> for None, <<n>> for n
    measured,       \* what get_page_count's reader read from the file
    calls,          \* instrumentation: the stage functions and loaders invoked
    native_docs,    \* instrumentation: what _extract_text_with_pymupdf returned
    ocr_docs,       \* instrumentation: what _extract_text_with_ocr returned
    ocr_outcome,    \* instrumentation: how _extract_text_with_ocr ended, after
                    \* how many pages and holding how many units
    alt_results,    \* instrumentation: how each alternative loader ended
    guard,          \* instrumentation: the except clause of line 82
    rasterized,     \* instrumentation: convert_from_path was called
    attempts,       \* the page just recognized: locals best_text and
                    \* best_length, and (instrumentation) the cleaned texts
                    \* of the attempts that did not raise, the attempts made,
                    \* in order, and the attempts that raised
    arg,            \* the argument of a helper method called on its own
    ret,            \* the values such calls returned, in order
    machine,        \* where the Tesseract executable is installed now
    runs,           \* the engine probes of the requests running side by side
    doc_chunks,     \* app.state.doc_chunks: <<>> while the attribute does not
                    \* exist, << d >> for the dict d
    collection,     \* the Chroma collection "documents": id -> document
    model,          \* module global `model` of vector_store: <<>> for None
    upload,         \* the /upload request being served
    added           \* instrumentation: the ids of every collection.add

vars ==
    << file_path, extension, call, pc, documents, stage_docs, num_pages,
       page_num, doc_open, tesseract_cmd, pil_images, loader_idx, exc, result,
       raised, page_count, measured, calls, native_docs, ocr_docs,
       ocr_outcome, alt_results, guard, rasterized, attempts, arg, ret,
       machine, runs, doc_chunks, collection, model, upload, added >>

\* what a call of load or get_page_count leaves alone
\* the state of the web application
server == << doc_chunks, collection, model, upload, added >>

apart == << arg, ret, machine, runs, server >>

\* the instrumentation of the OCR stage, the alternative loaders and the guard
probes == << ocr_outcome, alt_results, guard >>

\* what get_page_count leaves alone
loader_vars == << documents, stage_docs, num_pages, page_num, doc_open,
                  tesseract_cmd, pil_images, loader_idx, exc, result, raised,
                  calls, native_docs, ocr_docs, probes, rasterized,
                  attempts >>

None == <<>>

\* no page has been recognized: best_text = "", best_length = 0
NoBest == [text |-> <<>>, length |-> 0]

\* the loops of lines 223-243 before their first attempt: best_text and
\* best_length, and (instrumentation) the attempts made, in order, and the
\* attempts that raised
NoRun == [best |-> NoBest, tried |-> <<>>, failed |-> {}]

NoAttempts == [page |-> 0, texts |-> {}, best |-> NoBest, tried |-> <<>>,
               failed |-> {}]

\* no method of the loader has run
Idle ==
    /\ pc = "start"
    /\ documents = <<>>
    /\ stage_docs = <<>>
    /\ num_pages = 0
    /\ page_num = 0
    /\ doc_open = FALSE
    /\ tesseract_cmd = "tesseract"
    /\ pil_images = <<>>
    /\ loader_idx = 0
    /\ exc = <<>>
    /\ result = <<>>
    /\ raised = FALSE
    /\ page_count = None
    /\ measured = [kind |-> "nothing", n |-> 0]
    /\ calls = <<>>
    /\ native_docs = <<>>
    /\ ocr_docs = <<>>
    /\ ocr_outcome = [how |-> "not run", pages |-> 0, units |-> 0,
                      engine |-> "not probed"]
    /\ alt_results = <<>>
    /\ guard = "not entered"
    /\ rasterized = FALSE
    /\ attempts = NoAttempts
    /\ ret = <<>>

\* the application after import: no request served, app.state without
\* doc_chunks, the collection created empty (vector_store lines 3-22)
NoUpload == [pc |-> "idle", number |-> 0, filename |-> <<>>, chunks |-> <<>>,
             stages |-> <<>>, before |-> <<>>, vector |-> "not called",
             response |-> <<>>]

Unserved ==
    /\ doc_chunks = <<>>
    /\ collection = << >>
    /\ model = None
    /\ upload = NoUpload
    /\ added = <<>>

\* DocumentLoader.__init__, followed by the caller's choice of method
Init ==
    /\ file_path \in FilePaths
    /\ extension = Lower(SplitExt(file_path))
    /\ call \in {"load", "get_page_count"}
    /\ Idle
    /\ Unserved
    /\ arg = <<>>
    /\ machine = [at_path |-> FALSE, in_path |-> FALSE]
    /\ runs = <<>>

-----------------------------------------------------------------------------
(* DocumentLoader.load *)

\* load returns docs to its caller
Return(docs) ==
    /\ result' = docs
    /\ pc' = "done"

\* an exception e leaves the try body of load (lines 26-35)
RaiseInLoad(e) ==
    /\ exc' = e
    /\ pc' = "load_except"

\* load, extension ".pdf": return self._load_pdf_with_ocr()
LoadPdf ==
    /\ call = "load" /\ pc = "start"
    /\ extension = Pdf
    /\ pc' = "mu_open"
    /\ UNCHANGED << apart, attempts, file_path, extension, call, page_count, measured,
                    documents, stage_docs, num_pages, page_num, doc_open,
                    tesseract_cmd, pil_images, loader_idx, exc, result, raised,
                    calls, native_docs, ocr_docs, rasterized,
                    probes >>

\* load, extensions ".pptx", ".docx", ".txt": the format's one loader, which
\* returns a single Document (the Unstructured loaders run in their default
\* "single" mode, TextLoader reads the whole file) or raises
LoadSingle ==
    /\ call = "load" /\ pc = "start"
    /\ extension \in {Pptx, Docx, Txt}
    /\ \/ \E t \in LoaderTexts :
            /\ Return(<< Document(t, [source |-> file_path]) >>)
            /\ UNCHANGED exc
       \/ \E e \in LibraryErrors :
            /\ RaiseInLoad(e)
            /\ UNCHANGED result
    /\ UNCHANGED << apart, attempts, file_path, extension, call, page_count, measured,
                    documents, stage_docs, num_pages, page_num, doc_open,
                    tesseract_cmd, pil_images, loader_idx, raised,
                    calls, native_docs, ocr_docs, rasterized,
                    probes >>

\* load, any other extension: raise ValueError
LoadUnsupported ==
    /\ call = "load" /\ pc = "start"
    /\ extension \notin {Pdf, Pptx, Docx, Txt}
    /\ RaiseInLoad(UnsupportedPrefix \o extension)
    /\ UNCHANGED << apart, attempts, file_path, extension, call, page_count, measured,
                    documents, stage_docs, num_pages, page_num, doc_open,
                    tesseract_cmd, pil_images, loader_idx, result, raised,
                    calls, native_docs, ocr_docs, rasterized,
                    probes >>

\* LoadExcept re-raising the exception to the caller of load
LoadExceptReraise ==
    /\ pc = "load_except"
    /\ raised' = TRUE
    /\ pc' = "done"
    /\ UNCHANGED << apart, attempts, file_path, exc, extension, call, page_count, measured,
                    documents, stage_docs, num_pages, page_num, doc_open,
                    tesseract_cmd, pil_images, loader_idx, result,
                    calls, native_docs, ocr_docs, rasterized,
                    probes >>

\* load's except clause: the exception becomes one error Document
LoadExcept ==
    /\ pc = "load_except"
    /\ Return(<< ErrorDocument(file_path, exc) >>)
    /\ UNCHANGED << apart, attempts, file_path, exc, extension, call, page_count, measured,
                    documents, stage_docs, num_pages, page_num, doc_open,
                    tesseract_cmd, pil_images, loader_idx, raised,
                    calls, native_docs, ocr_docs, rasterized,
                    probes >>

-----------------------------------------------------------------------------
(* DocumentLoader._extract_text_with_pymupdf *)

\* thresholds of the code
NativeAcceptChars == 50
ShortPageChars == 10
OcrAcceptChars == 10
LoaderAcceptChars == 10

\* `not text or len(text.strip()) < 10`
IsShort(text) == text = <<>> \/ Len(Strip(text)) < ShortPageChars

\* the text of one page after the retries of lines 97-114, the page's dict
\* having the key "blocks"
PageText(t1, t2, d) ==
    IF ~IsShort(t1) THEN t1
    ELSE IF ~IsShort(t2) THEN t2
    ELSE Join(<<" ">>, d.spans)

\* the page reaches line 116 with `text` still the dict: text.strip() raises
PageRaises(t1, t2, d) == IsShort(t1) /\ IsShort(t2) /\ ~d.has_blocks

\* PageDocuments numbering every page 1
PageDocumentsPageOne(text, page, path) ==
    IF text # <<>> /\ Len(Strip(text)) > 0
    THEN << Document(Strip(text), [page |-> 1, source |-> path]) >>
    ELSE <<>>

\* lines 116-120: the page's Document, if its stripped text is not empty
PageDocuments(text, page, path) ==
    IF text # <<>> /\ Len(Strip(text)) > 0
    THEN << Document(Strip(text), [page |-> page + 1, source |-> path]) >>
    ELSE <<>>

\* _extract_text_with_pymupdf returns docs to _load_pdf_with_ocr (line 49)
NativeReturn(docs) ==
    /\ documents' = docs
    /\ native_docs' = docs
    /\ stage_docs' = <<>>
    /\ num_pages' = 0
    /\ page_num' = 0
    /\ pc' = "check_native"

\* fitz.open: raises (the except clause returns []) or opens n pages
MuOpen ==
    /\ pc = "mu_open"
    /\ calls' = Append(calls, "pymupdf")
    /\ \/ /\ NativeReturn(<<>>)
          /\ UNCHANGED doc_open
       \/ \E n \in 0..MaxPages :
            /\ num_pages' = n
            /\ page_num' = 0
            /\ stage_docs' = <<>>
            /\ doc_open' = TRUE
            /\ pc' = "mu_page"
            /\ UNCHANGED << documents, native_docs >>
    /\ UNCHANGED << apart, attempts, file_path, extension, call, page_count, measured,
                    tesseract_cmd, pil_images, loader_idx, exc, result, raised,
                    ocr_docs, rasterized,
                    probes >>

\* one iteration of the page loop (lines 93-120); an exception raised by
\* load_page or get_text, or by strip on a dict, ends the function in its
\* except clause, which returns [] and leaves the document open
MuPage ==
    /\ pc = "mu_page"
    /\ page_num < num_pages
    /\ \/ NativeReturn(<<>>)
       \/ \E t1 \in GetTextResults, t2 \in GetTextResults, d \in GetDictResults :
            IF PageRaises(t1, t2, d)
            THEN NativeReturn(<<>>)
            ELSE /\ stage_docs' = stage_docs \o
                        PageDocuments(PageText(t1, t2, d), page_num, file_path)
                 /\ page_num' = page_num + 1
                 /\ UNCHANGED << documents, native_docs, num_pages, pc >>
    /\ UNCHANGED << apart, attempts, file_path, extension, call, page_count, measured,
                    doc_open, tesseract_cmd, pil_images, loader_idx,
                    exc, result, raised, calls, ocr_docs, rasterized,
                    probes >>

\* after the loop: doc.close(); return documents
MuClose ==
    /\ pc = "mu_page"
    /\ page_num = num_pages
    /\ doc_open' = FALSE
    /\ NativeReturn(stage_docs)
    /\ UNCHANGED << apart, attempts, file_path, extension, call, page_count, measured,
                    tesseract_cmd, pil_images, loader_idx, exc, result, raised,
                    calls, ocr_docs, rasterized,
                    probes >>

-----------------------------------------------------------------------------
(* DocumentLoader._load_pdf_with_ocr *)

\* NativeAccepted with `>=` for the `>` of line 53
NativeAcceptedAtLeast50(docs) ==
    Len(Strip(TotalText(docs))) >= NativeAcceptChars

\* NativeAccepted with the threshold of line 53 taken as 60
NativeAcceptedAbove60(docs) == Len(Strip(TotalText(docs))) > 60

\* `len(total_text.strip()) > 50` of line 53
NativeAccepted(docs) == Len(Strip(TotalText(docs))) > NativeAcceptChars

\* lines 52-59: return the native documents, or call the OCR stage
CheckNative ==
    /\ pc = "check_native"
    /\ IF NativeAccepted(documents)
       THEN Return(documents)
       ELSE /\ pc' = "ocr_probe"
            /\ UNCHANGED result
    /\ UNCHANGED << apart, attempts, file_path, extension, call, page_count, measured,
                    documents, stage_docs, num_pages, page_num, doc_open,
                    tesseract_cmd, pil_images, loader_idx, exc, raised,
                    calls, native_docs, ocr_docs, rasterized,
                    probes >>

\* lines 61-68: return the OCR documents if there are any, or call the
\* alternative loaders
CheckOcr ==
    /\ pc = "check_ocr"
    /\ IF documents # <<>>
       THEN /\ Return(documents)
            /\ UNCHANGED loader_idx
       ELSE /\ pc' = "alt_try"
            /\ loader_idx' = 1
            /\ UNCHANGED result
    /\ UNCHANGED << apart, attempts, file_path, extension, call, page_count, measured,
                    documents, stage_docs, num_pages, page_num, doc_open,
                    tesseract_cmd, pil_images, exc, raised,
                    calls, native_docs, ocr_docs, rasterized,
                    probes >>

\* lines 70-80: return the alternative loaders' documents if there are any,
\* or the placeholder Document
CheckAlt ==
    /\ pc = "check_alt"
    /\ IF documents # <<>>
       THEN Return(documents)
       ELSE Return(<< PlaceholderDocument(file_path) >>)
    /\ UNCHANGED << apart, attempts, file_path, extension, call, page_count, measured,
                    documents, stage_docs, num_pages, page_num, doc_open,
                    tesseract_cmd, pil_images, loader_idx, exc, raised,
                    calls, native_docs, ocr_docs, rasterized,
                    probes >>

\* an exception raised in the try body of lines 46-80 outside the stage
\* functions' own guards reaches the except clause of line 82
ControllerFault ==
    /\ pc \in {"mu_open", "check_native", "check_ocr", "check_alt"}
    /\ pc' = "pdf_except"
    /\ guard' = "entered"
    /\ UNCHANGED << apart, attempts, file_path, extension, call, page_count, measured,
                    documents, stage_docs, num_pages, page_num, doc_open,
                    tesseract_cmd, pil_images, loader_idx, exc, result, raised,
                    calls, native_docs, ocr_docs, rasterized,
                    ocr_outcome, alt_results >>

\* lines 82-85: return PyPDFLoader(self.file_path).load(), whatever it is;
\* if it raises, the exception leaves _load_pdf_with_ocr into load's try
PdfExcept ==
    /\ pc = "pdf_except"
    /\ calls' = Append(calls, "fallback:PyPDFLoader")
    /\ \/ \E docs \in FallbackDocuments(file_path) :
            /\ Return(docs)
            /\ guard' = "fallback returned"
            /\ UNCHANGED exc
       \/ \E e \in LibraryErrors :
            /\ RaiseInLoad(e)
            /\ guard' = "fallback raised"
            /\ UNCHANGED result
    /\ UNCHANGED << apart, attempts, file_path, extension, call, page_count, measured,
                    documents, stage_docs, num_pages, page_num, doc_open,
                    tesseract_cmd, pil_images, loader_idx, raised,
                    native_docs, ocr_docs, rasterized,
                    ocr_outcome, alt_results >>

-----------------------------------------------------------------------------
(* DocumentLoader._clean_ocr_text *)

\* str.split(): the maximal runs of non-whitespace characters
RECURSIVE SplitWhitespace(_)
SplitWhitespace(s) ==
    LET text == {i \in 1..Len(s) : s[i] \notin Whitespace}
    IN  IF text = {} THEN <<>>
        ELSE LET first == SetMin(text)
                 gaps  == {i \in first..Len(s) : s[i] \in Whitespace}
                 stop  == IF gaps = {} THEN Len(s) + 1 ELSE SetMin(gaps)
             IN  << SubSeq(s, first, stop - 1) >> \o
                 SplitWhitespace(SubSeq(s, stop, Len(s)))

\* str.split(sep) for a one-character sep
RECURSIVE SplitOn(_, _)
SplitOn(s, sep) ==
    LET hits == {i \in 1..Len(s) : s[i] = sep}
    IN  IF hits = {} THEN << s >>
        ELSE << SubSeq(s, 1, SetMin(hits) - 1) >> \o
             SplitOn(SubSeq(s, SetMin(hits) + 1, Len(s)), sep)

\* str.replace(old, new): the non-overlapping occurrences, left to right
RECURSIVE Replace(_, _, _)
Replace(s, old, new) ==
    IF Len(s) < Len(old) THEN s
    ELSE IF SubSeq(s, 1, Len(old)) = old
         THEN new \o Replace(SubSeq(s, Len(old) + 1, Len(s)), old, new)
         ELSE << Head(s) >> \o Replace(Tail(s), old, new)

Punctuation == {".", ",", "!", "?", ";", ":", "(", ")", "[", "]", "{", "}"}

\* FixOcrErrors replacing l by I before 1 by l
FixOcrErrorsUnchained(text) ==
    LET r1 == Replace(text, <<"|">>, <<"I">>)
        r2 == Replace(r1, <<"0">>, <<"O">>)
        r3 == Replace(r2, <<"l">>, <<"I">>)
        r4 == Replace(r3, <<"1">>, <<"l">>)
        r5 == Replace(r4, <<"r", "n">>, <<"m">>)
        r6 == Replace(r5, <<"c", "l">>, <<"d">>)
    IN  Replace(r6, <<"v", "v">>, <<"w">>)

\* lines 336-342, in order
FixOcrErrors(text) ==
    LET r1 == Replace(text, <<"|">>, <<"I">>)
        r2 == Replace(r1, <<"0">>, <<"O">>)
        r3 == Replace(r2, <<"1">>, <<"l">>)
        r4 == Replace(r3, <<"l">>, <<"I">>)
        r5 == Replace(r4, <<"r", "n">>, <<"m">>)
        r6 == Replace(r5, <<"c", "l">>, <<"d">>)
    IN  Replace(r6, <<"v", "v">>, <<"w">>)

\* KeptLines keeping the lines of 2 characters too
KeptLinesOfTwo(lines) ==
    SelectSeq([i \in 1..Len(lines) |-> Strip(lines[i])],
              LAMBDA line : Len(line) >= 2 /\
                            ~(\A k \in 1..Len(line) : line[k] \in Punctuation))

\* lines 345-351: the stripped lines longer than 2 that are not all punctuation
KeptLines(lines) ==
    SelectSeq([i \in 1..Len(lines) |-> Strip(lines[i])],
              LAMBDA line : Len(line) > 2 /\
                            ~(\A k \in 1..Len(line) : line[k] \in Punctuation))

clean_ocr_text(text) ==
    IF text = <<>> THEN text
    ELSE LET collapsed == Join(<<" ">>, SplitWhitespace(text))
             fixed     == FixOcrErrors(collapsed)
             joined    == Join(<<"\n">>, KeptLines(SplitOn(fixed, "\n")))
         IN  Join(<<"\n">>,
                  SelectSeq(SplitOn(joined, "\n"),
                            LAMBDA line : Strip(line) # <<>>))

\* the characters of the texts handed to _clean_ocr_text on its own: the
\* whitespace it collapses, the characters its replacements read and write,
\* and punctuation
CleanerAlphabet == {" ", "\n", "|", "0", "1", "l", "r", "n", "c", "v", "."}

CleanerTexts == UNION { [1..n -> CleanerAlphabet] : n \in 0..MaxTextLen }

\* a caller holding a loader and a text
CleanerInit ==
    /\ file_path \in {<<"a", ".", "p", "d", "f">>}
    /\ extension = Lower(SplitExt(file_path))
    /\ call = "_clean_ocr_text"
    /\ Idle
    /\ Unserved
    /\ arg \in CleanerTexts
    /\ machine = [at_path |-> FALSE, in_path |-> FALSE]
    /\ runs = <<>>

\* the caller calls _clean_ocr_text on the text, then on what it returned
CleanOcrText ==
    /\ call = "_clean_ocr_text"
    /\ Len(ret) < 2
    /\ ret' = Append(ret, clean_ocr_text(IF ret = <<>> THEN arg
                                         ELSE ret[Len(ret)]))
    /\ UNCHANGED << file_path, extension, call, arg, machine, runs, server >>
    /\ UNCHANGED << pc, page_count, measured >>
    /\ UNCHANGED loader_vars

CleanerSpec == CleanerInit /\ [][CleanOcrText]_vars

-----------------------------------------------------------------------------
(* DocumentLoader._preprocess_image_for_ocr *)

\* An image is the sequence of the operations that produced it from the
\* rasterized page: << "page" >> is the PIL image of convert_from_path.
PageImage == << "page" >>

ThresholdNames == << "adaptive", "otsu", "binary" >>

\* every way cv2 can fail on one image: step 1 (grayscale, denoising), any of
\* the three thresholdings (1 adaptive, 2 Otsu, 3 fixed), and for each
\* processed image its morphological closing, at the small or at the medium
\* kernel
AllCv2Failures ==
    [ step1  : BOOLEAN,
      thresh : SUBSET (1..Len(ThresholdNames)),
      morph  : [1..(Len(ThresholdNames) + 1) -> {"none", "small", "medium"}] ]

\* the failures met by the pages of a run
Cv2Failures ==
    { f \in AllCv2Failures :
        /\ f.thresh \in { {}, {2}, {1, 2, 3} }
        /\ \A i \in DOMAIN f.morph : i > 1 => f.morph[i] = "none" }

\* lines 305-318 for one processed image
Closings(img, failure) ==
    IF failure = "small" THEN << img >>
    ELSE IF failure = "medium" THEN << Append(img, "close1x1"), img >>
    ELSE << Append(img, "close1x1"), Append(img, "close2x2") >>

RECURSIVE Flatten(_)
Flatten(lists) ==
    IF lists = <<>> THEN <<>> ELSE Head(lists) \o Flatten(Tail(lists))

\* preprocess_image_for_ocr with the thresholdings under the outer try only:
\* a thresholding that fails ends the function at line 325
PreprocessThresholdFatal(image, f) ==
    IF f.step1 \/ f.thresh # {} THEN << image >>
    ELSE LET denoised  == image \o << "gray", "denoised" >>
             processed == [i \in 1..Len(ThresholdNames) |->
                              Append(denoised, ThresholdNames[i])]
                          \o << denoised >>
         IN  Flatten([i \in 1..Len(processed) |->
                        Closings(processed[i], f.morph[i])])

\* preprocess_image_for_ocr without the grayscale image of line 301 and
\* without the fallbacks of lines 318 and 325
PreprocessThresholdsOnly(image, f) ==
    IF f.step1 THEN <<>>
    ELSE LET denoised  == image \o << "gray", "denoised" >>
             thresh    == [i \in 1..Len(ThresholdNames) |->
                              IF i \in f.thresh THEN <<>>
                              ELSE << Append(denoised, ThresholdNames[i]) >>]
             processed == Flatten(thresh)
         IN  Flatten([i \in 1..Len(processed) |->
                        IF f.morph[i] = "small" THEN <<>>
                        ELSE Closings(processed[i], f.morph[i])])

preprocess_image_for_ocr(image, f) ==
    IF f.step1 THEN << image >>
    ELSE LET denoised  == image \o << "gray", "denoised" >>
             thresh    == [i \in 1..Len(ThresholdNames) |->
                              IF i \in f.thresh THEN <<>>
                              ELSE << Append(denoised, ThresholdNames[i]) >>]
             processed == Flatten(thresh) \o << denoised >>
         IN  Flatten([i \in 1..Len(processed) |->
                        Closings(processed[i], f.morph[i])])

\* the images handed to _preprocess_image_for_ocr on its own: a page, an
\* all-black and an all-white image, in OpenCV's BGR layout
PreprocessorImages ==
    { << "page", "BGR" >>, << "black", "BGR" >>, << "white", "BGR" >> }

\* a caller holding a loader and an image, on which cv2 will fail as `how`
PreprocessorInit ==
    /\ file_path \in {<<"a", ".", "p", "d", "f">>}
    /\ extension = Lower(SplitExt(file_path))
    /\ call = "_preprocess_image_for_ocr"
    /\ Idle
    /\ Unserved
    /\ arg \in [image : PreprocessorImages, how : AllCv2Failures]
    /\ machine = [at_path |-> FALSE, in_path |-> FALSE]
    /\ runs = <<>>

\* the caller calls _preprocess_image_for_ocr on the image
PreprocessImage ==
    /\ call = "_preprocess_image_for_ocr"
    /\ ret = <<>>
    /\ ret' = << preprocess_image_for_ocr(arg.image, arg.how) >>
    /\ UNCHANGED << file_path, extension, call, arg, machine, runs, server >>
    /\ UNCHANGED << pc, page_count, measured >>
    /\ UNCHANGED loader_vars

PreprocessorSpec == PreprocessorInit /\ [][PreprocessImage]_vars

-----------------------------------------------------------------------------
(* DocumentLoader._extract_text_with_ocr *)

TesseractPath == "C:\\Program Files\\Tesseract-OCR\\tesseract.exe"

\* the names of `ocr_configs`, in order
OcrConfigs ==
    << "default", "alphanumeric", "sparse_text", "single_line", "single_word",
       "circular_text", "single_char", "sparse_text_alt", "raw_line",
       "uniform_block" >>

\* what pytesseract.image_to_string returns
OcrRawTexts ==
    { <<>>, <<"c", "d", "\n", "1", "l">>, <<"(", ".", ".", ".", ")">>, <<"a", "b", " ", "1", "l">>, <<"p", "a", "g", "e", " ", " ", "o", "n", "e", "\n", " ", "0", "k">>,
      <<"m", "o", "d", "e", "r", "n", " ", " ", "v", "v", "o", "r", "l", "d", " ", "1",
      "0", "|">> }

\* one recognition attempt: it raises, or returns a text
OcrOutcomes ==
    { [raises |-> TRUE, text |-> <<>>] } \cup
    { [raises |-> FALSE, text |-> t] : t \in OcrRawTexts }

\* the engine on one page: every attempt ends as `base`, except the attempt
\* on image `at[1]` under configuration `at[2]`, which ends as `special`
OcrEngines(n_images) ==
    [ base    : OcrOutcomes,
      special : OcrOutcomes,
      at      : { <<1, Len(OcrConfigs)>>, <<n_images, 2>> } ]

ImageToString(engine, v, c) ==
    IF << v, c >> = engine.at THEN engine.special ELSE engine.base

\* _clean_ocr_text of every text the engine can return, tabulated once (the
\* comparison makes TLC evaluate the table when it evaluates the definition)
CleanedText ==
    LET table == [t \in OcrRawTexts |-> clean_ocr_text(t)]
    IN  IF table = table THEN table ELSE table

\* Attempt with `>=` for the `>` of line 236
AttemptKeepsLastOfTies(engine, v, c, best) ==
    LET o       == ImageToString(engine, v, c)
        cleaned == CleanedText[o.text]
    IN  IF ~o.raises /\ Len(Strip(cleaned)) >= best.length
        THEN [text |-> cleaned, length |-> Len(Strip(cleaned))]
        ELSE best

\* Attempt losing the best text when the attempt raises
AttemptRaiseResets(engine, v, c, best) ==
    LET o       == ImageToString(engine, v, c)
        cleaned == CleanedText[o.text]
    IN  IF o.raises THEN NoBest
        ELSE IF Len(Strip(cleaned)) > best.length
        THEN [text |-> cleaned, length |-> Len(Strip(cleaned))]
        ELSE best

\* Attempt keeping the text of the latest attempt that did not raise
AttemptKeepsLatest(engine, v, c, best) ==
    LET o       == ImageToString(engine, v, c)
        cleaned == CleanedText[o.text]
    IN  IF ~o.raises
        THEN [text |-> cleaned, length |-> Len(Strip(cleaned))]
        ELSE best

\* one attempt (lines 225-243): `best` holds best_text and best_length
Attempt(engine, v, c, best) ==
    LET o       == ImageToString(engine, v, c)
        cleaned == CleanedText[o.text]
    IN  IF ~o.raises /\ Len(Strip(cleaned)) > best.length
        THEN [text |-> cleaned, length |-> Len(Strip(cleaned))]
        ELSE best

\* TryConfigs leaving the loop once the best text is long enough to be kept
RECURSIVE TryConfigsEarlyExit(_, _, _, _)
TryConfigsEarlyExit(engine, v, c, run) ==
    IF c > Len(OcrConfigs) \/ run.best.length > OcrAcceptChars THEN run
    ELSE TryConfigsEarlyExit(engine, v, c + 1,
            [best   |-> Attempt(engine, v, c, run.best),
             tried  |-> Append(run.tried, << v, c >>),
             failed |-> IF ImageToString(engine, v, c).raises
                        THEN run.failed \cup { << v, c >> }
                        ELSE run.failed])

\* the inner loop of line 224 on image v, from configuration c on: the
\* attempt is made and, if it raised, the except clause of line 241 goes on
\* to the next configuration
RECURSIVE TryConfigs(_, _, _, _)
TryConfigs(engine, v, c, run) ==
    IF c > Len(OcrConfigs) THEN run
    ELSE TryConfigs(engine, v, c + 1,
            [best   |-> Attempt(engine, v, c, run.best),
             tried  |-> Append(run.tried, << v, c >>),
             failed |-> IF ImageToString(engine, v, c).raises
                        THEN run.failed \cup { << v, c >> }
                        ELSE run.failed])

\* the outer loop of line 223, from image v on. `next` is bound through a
\* singleton set so that TLC evaluates it before the next iteration.
RECURSIVE Recognize(_, _, _, _)
Recognize(engine, n_images, v, run) ==
    IF v > n_images THEN run
    ELSE CHOOSE r \in { Recognize(engine, n_images, v + 1, next) :
                            next \in { TryConfigs(engine, v, 1, run) } } : TRUE

\* the most images a page can have: two closings of each processed image
MaxImages == 2 * (Len(ThresholdNames) + 1)

\* the loops of lines 223-243 run to their end, tabulated once for every
\* number of images and every engine (as CleanedText is)
PageRun ==
    LET table == [n \in 1..MaxImages |->
                    [engine \in OcrEngines(n) |->
                        Recognize(engine, n, 1, NoRun)]]
    IN  IF table = table THEN table ELSE table

\* OcrPageDocuments accepting any non-blank best text
OcrPageDocumentsAnyText(best_text, page, path) ==
    IF best_text # <<>> /\ Len(Strip(best_text)) > 0
    THEN << Document(Strip(best_text),
                     [page |-> page + 1, source |-> path, method |-> "OCR"]) >>
    ELSE <<>>

\* instrumentation: the cleaned texts of the attempts that did not raise, on
\* a page of n_images images
AttemptTexts(engine, n_images) ==
    { CleanedText[o.text] :
        o \in { a \in { ImageToString(engine, v, c) :
                            v \in 1..n_images, c \in 1..Len(OcrConfigs) } :
                    ~a.raises } }

\* AttemptTexts, tabulated as PageRun is
PageTexts ==
    LET table == [n \in 1..MaxImages |->
                    [engine \in OcrEngines(n) |-> AttemptTexts(engine, n)]]
    IN  IF table = table THEN table ELSE table

\* the pages handed to the loops of lines 223-243 on their own: a number of
\* images and what the engine does on them
RecognizerPages ==
    UNION { { [images |-> n, engine |-> e] : e \in OcrEngines(n) } :
              n \in 1..MaxImages }

\* a caller holding a loader and the images of a page
RecognizerInit ==
    /\ file_path \in {<<"a", ".", "p", "d", "f">>}
    /\ extension = Lower(SplitExt(file_path))
    /\ call = "recognize"
    /\ Idle
    /\ Unserved
    /\ arg \in RecognizerPages
    /\ machine = [at_path |-> FALSE, in_path |-> FALSE]
    /\ runs = <<>>

\* lines 193-243 run on the page
RecognizePage ==
    /\ call = "recognize"
    /\ ret = <<>>
    /\ ret' = << PageRun[arg.images][arg.engine] >>
    /\ UNCHANGED << file_path, extension, call, arg, machine, runs, server >>
    /\ UNCHANGED << pc, page_count, measured >>
    /\ UNCHANGED loader_vars

RecognizerSpec == RecognizerInit /\ [][RecognizePage]_vars

\* OcrPageDocuments giving every page a unit
OcrPageDocumentsEveryPage(best_text, page, path) ==
    << Document(Strip(best_text),
                [page |-> page + 1, source |-> path, method |-> "OCR"]) >>

\* lines 246-250: the page's Document, if the best text is long enough
OcrPageDocuments(best_text, page, path) ==
    IF best_text # <<>> /\ Len(Strip(best_text)) > OcrAcceptChars
    THEN << Document(Strip(best_text),
                     [page |-> page + 1, source |-> path, method |-> "OCR"]) >>
    ELSE <<>>

\* _extract_text_with_ocr returns docs to _load_pdf_with_ocr (line 59), the
\* engine having been found as `engine`
OcrReturnFrom(docs, how, engine) ==
    /\ documents' = docs
    /\ ocr_docs' = docs
    /\ ocr_outcome' = [how |-> how, pages |-> page_num,
                       units |-> Len(stage_docs), engine |-> engine]
    /\ stage_docs' = <<>>
    /\ num_pages' = 0
    /\ page_num' = 0
    /\ pil_images' = <<>>
    /\ attempts' = NoAttempts
    /\ pc' = "check_ocr"

OcrReturn(docs, how) == OcrReturnFrom(docs, how, ocr_outcome.engine)

\* what the machine offers the probe of lines 133-156: no executable at the
\* well-known path or in PATH, an executable whose version cannot be read, or
\* a working engine
EngineFacts(path_exists, in_path, version_ok) ==
    IF ~path_exists /\ in_path # "found" THEN "no executable"
    ELSE IF ~version_ok THEN "version probe failed"
    ELSE "working"

\* EngineResolved without the version probe of line 155
EngineResolvedUnprobed(path_exists, in_path, version_ok) ==
    path_exists \/ in_path = "found"

\* lines 138-156 raise nothing: the executable is at the well-known path or
\* `tesseract --version` ran with return code 0, and get_tesseract_version
\* returned
EngineResolved(path_exists, in_path, version_ok) ==
    (path_exists \/ in_path = "found") /\ version_ok

\* lines 133-160: resolve the engine. The well-known path exists (and becomes
\* the module-global tesseract_cmd) or `tesseract --version` is run; then the
\* version probe. Any failure returns [] from the inner except clause.
OcrProbe ==
    /\ pc = "ocr_probe"
    /\ calls' = Append(calls, "ocr")
    /\ \E path_exists \in BOOLEAN,
          in_path \in {"found", "nonzero", "raises"},
          version_ok \in BOOLEAN :
            /\ tesseract_cmd' = IF path_exists THEN TesseractPath
                                ELSE tesseract_cmd
            /\ IF EngineResolved(path_exists, in_path, version_ok)
               THEN /\ pc' = "ocr_convert"
                    /\ ocr_outcome' =
                         [how |-> "running", pages |-> 0, units |-> 0,
                          engine |-> EngineFacts(path_exists, in_path, version_ok)]
                    /\ UNCHANGED << documents, ocr_docs,
                                    stage_docs, num_pages, page_num,
                                    pil_images, attempts >>
               ELSE OcrReturnFrom(<<>>, "unresolved",
                        EngineFacts(path_exists, in_path, version_ok))
    /\ UNCHANGED << apart, file_path, extension, call, page_count, measured,
                    doc_open, loader_idx, exc, result, raised, native_docs,
                    rasterized,
                    alt_results, guard >>

\* OcrConvert without the try of line 131: the exception of
\* convert_from_path leaves the stage function
OcrConvertUnguarded ==
    /\ pc = "ocr_convert"
    /\ rasterized' = TRUE
    /\ \/ /\ pc' = "pdf_except"
          /\ guard' = "entered"
          /\ UNCHANGED << documents, ocr_docs, ocr_outcome, pil_images,
                          attempts, num_pages, page_num, stage_docs >>
       \/ \E n \in 0..MaxPages :
            /\ num_pages' = n
            /\ page_num' = 0
            /\ stage_docs' = <<>>
            /\ pc' = "ocr_page"
            /\ UNCHANGED << documents, ocr_docs, ocr_outcome, pil_images,
                            attempts, guard >>
    /\ UNCHANGED << apart, file_path, extension, call, page_count, measured,
                    doc_open, tesseract_cmd, loader_idx, exc,
                    result, raised, calls, native_docs,
                    alt_results >>

\* lines 162-172: convert_from_path raises (the outer except clause returns
\* []) or returns n images
OcrConvert ==
    /\ pc = "ocr_convert"
    /\ rasterized' = TRUE
    /\ \/ OcrReturn(<<>>, "convert failed")
       \/ \E n \in 0..MaxPages :
            /\ num_pages' = n
            /\ page_num' = 0
            /\ stage_docs' = <<>>
            /\ pc' = "ocr_page"
            /\ UNCHANGED << documents, ocr_docs, ocr_outcome, pil_images,
                            attempts >>
    /\ UNCHANGED << apart, file_path, extension, call, page_count, measured,
                    doc_open, tesseract_cmd, loader_idx, exc,
                    result, raised, calls, native_docs,
                    alt_results, guard >>

\* OcrPreprocess returning the units of the pages before when the page's
\* conversion raises
OcrPreprocessKeepsUnits ==
    /\ pc = "ocr_page"
    /\ page_num < num_pages
    /\ \/ OcrReturn(stage_docs, "page failed")
       \/ \E f \in Cv2Failures, bad \in 0..1 :
            LET processed == preprocess_image_for_ocr(Append(PageImage, "BGR"), f)
            IN  /\ pil_images' = [i \in 1..Len(processed) |->
                                    IF i = bad THEN PageImage
                                    ELSE Append(processed[i], "PIL")]
                /\ pc' = "ocr_recognize"
                /\ UNCHANGED << documents, ocr_docs, ocr_outcome, stage_docs,
                                num_pages, page_num, attempts >>
    /\ UNCHANGED << apart, file_path, extension, call, page_count, measured,
                    doc_open, tesseract_cmd, loader_idx, exc, result, raised,
                    calls, native_docs, rasterized,
                    alt_results, guard >>

\* lines 178-191 for one page: the conversion to OpenCV raises (the outer
\* except clause returns []), or the image is preprocessed and every variant
\* converted back to PIL: a variant whose conversion fails (`bad`, 0 for
\* none) is replaced by the page image
OcrPreprocess ==
    /\ pc = "ocr_page"
    /\ page_num < num_pages
    /\ \/ OcrReturn(<<>>, "page failed")
       \/ \E f \in Cv2Failures, bad \in 0..1 :
            LET processed == preprocess_image_for_ocr(Append(PageImage, "BGR"), f)
            IN  /\ pil_images' = [i \in 1..Len(processed) |->
                                    IF i = bad THEN PageImage
                                    ELSE Append(processed[i], "PIL")]
                /\ pc' = "ocr_recognize"
                /\ UNCHANGED << documents, ocr_docs, ocr_outcome, stage_docs,
                                num_pages, page_num, attempts >>
    /\ UNCHANGED << apart, file_path, extension, call, page_count, measured,
                    doc_open, tesseract_cmd, loader_idx, exc, result, raised,
                    calls, native_docs, rasterized,
                    alt_results, guard >>

\* lines 193-243 for one page: every image under every configuration
OcrRecognize ==
    /\ pc = "ocr_recognize"
    /\ \E engine \in OcrEngines(Len(pil_images)) :
            LET run == PageRun[Len(pil_images)][engine]
            IN  attempts' = [page   |-> page_num + 1,
                             texts  |-> PageTexts[Len(pil_images)][engine],
                             best   |-> run.best,
                             tried  |-> run.tried,
                             failed |-> run.failed]
    /\ pil_images' = <<>>
    /\ pc' = "ocr_keep"
    /\ UNCHANGED << apart, file_path, extension, call, page_count, measured,
                    documents, stage_docs, num_pages, page_num, doc_open,
                    tesseract_cmd, loader_idx, exc, result, raised, calls,
                    native_docs, ocr_docs, rasterized,
                    probes >>

\* lines 245-253 for one page: the page's Document, if any; the next page
\* starts with best_text and best_length reset (lines 194-195)
OcrKeep ==
    /\ pc = "ocr_keep"
    /\ stage_docs' = stage_docs \o
            OcrPageDocuments(attempts.best.text, page_num, file_path)
    /\ page_num' = page_num + 1
    /\ attempts' = NoAttempts
    /\ pc' = "ocr_page"
    /\ UNCHANGED << apart, file_path, extension, call, page_count, measured,
                    documents, num_pages, doc_open, tesseract_cmd, pil_images,
                    loader_idx, exc, result, raised, calls, native_docs,
                    ocr_docs, rasterized,
                    probes >>

\* after the loop: return documents
OcrDone ==
    /\ pc = "ocr_page"
    /\ page_num = num_pages
    /\ OcrReturn(stage_docs, "completed")
    /\ UNCHANGED << apart, file_path, extension, call, page_count, measured,
                    doc_open, tesseract_cmd, loader_idx, exc, result, raised,
                    calls, native_docs, rasterized,
                    alt_results, guard >>

-----------------------------------------------------------------------------
(* The engine probe of _extract_text_with_ocr in requests running side by
   side in one process. Each request has its own DocumentLoader and its own
   file; pytesseract.pytesseract.tesseract_cmd is one attribute of the
   imported module, the same for all of them. *)

\* the executable that running `cmd` starts exists on the machine
Executable(m, cmd) ==
    IF cmd = TesseractPath THEN m.at_path ELSE m.in_path

\* a request that has not reached the probe; `own` is the value
\* tesseract_cmd would have if only this request had written it
NewRun == [pc |-> "probe", resolved |-> FALSE, own |-> "tesseract",
           alone |-> FALSE]

\* several requests are about to run the OCR stage
SharedInit ==
    /\ file_path \in {<<"a", ".", "p", "d", "f">>}
    /\ extension = Lower(SplitExt(file_path))
    /\ call = "_extract_text_with_ocr"
    /\ Idle
    /\ Unserved
    /\ arg = <<>>
    /\ machine \in [at_path : BOOLEAN, in_path : BOOLEAN]
    /\ runs = [r \in 1..MaxRuns |-> NewRun]

\* lines 137-151 in request r: the well-known path exists and is written to
\* tesseract_cmd, or `tesseract --version` is run from PATH; if neither
\* works the stage returns []
RunProbe(r) ==
    /\ runs[r].pc = "probe"
    /\ tesseract_cmd' = IF machine.at_path THEN TesseractPath
                        ELSE tesseract_cmd
    /\ runs' = [runs EXCEPT
                  ![r].pc  = IF EngineResolved(machine.at_path,
                                    IF machine.in_path THEN "found"
                                    ELSE "raises", TRUE)
                             THEN "version" ELSE "done",
                  ![r].own = IF machine.at_path THEN TesseractPath ELSE @]

\* line 155 in request r: get_tesseract_version runs tesseract_cmd; if that
\* fails the stage returns [], otherwise it goes on to recognize with
\* tesseract_cmd
RunVersion(r) ==
    /\ runs[r].pc = "version"
    /\ runs' = [runs EXCEPT
                  ![r].pc       = "done",
                  ![r].resolved = Executable(machine, tesseract_cmd),
                  ![r].alone    = Executable(machine, runs[r].own)]
    /\ UNCHANGED tesseract_cmd

\* a step of one of the requests
RunStep ==
    /\ call = "_extract_text_with_ocr"
    /\ \E r \in DOMAIN runs : RunProbe(r) \/ RunVersion(r)
    /\ UNCHANGED << file_path, extension, call, arg, ret, machine, server >>
    /\ UNCHANGED << pc, page_count, measured, documents, stage_docs,
                    num_pages, page_num, doc_open, pil_images, loader_idx,
                    exc, result, raised, calls, native_docs, ocr_docs,
                    probes, rasterized, attempts >>

\* Tesseract is installed at, or removed from, the well-known path or PATH
MachineChange ==
    /\ call = "_extract_text_with_ocr"
    /\ \E m \in [at_path : BOOLEAN, in_path : BOOLEAN] :
            /\ m # machine
            /\ machine' = m
    /\ UNCHANGED << file_path, extension, call, arg, ret, runs, server >>
    /\ UNCHANGED << pc, page_count, measured >>
    /\ UNCHANGED loader_vars

SharedNext ==
    \/ RunStep
    \/ MachineChange

SharedSpec == SharedInit /\ [][SharedNext]_vars

-----------------------------------------------------------------------------
(* DocumentLoader._try_alternative_pdf_loaders *)

\* the names of `loaders`, in order
AlternativeLoaders ==
    << "PDFPlumberLoader", "UnstructuredPDFLoader", "PyPDFLoader" >>

\* LoaderAccepted with the threshold of line 374 taken as 20
LoaderAcceptedAbove20(docs) == Len(Strip(TotalText(docs))) > 20

\* `len(total_text.strip()) > 10` of line 374
LoaderAccepted(docs) == Len(Strip(TotalText(docs))) > LoaderAcceptChars

\* instrumentation: a loader raised, or returned docs
AltResult(has_raised, docs) ==
    [raised |-> has_raised, chars |-> Len(Strip(TotalText(docs)))]

\* _try_alternative_pdf_loaders returns docs to _load_pdf_with_ocr (line 68)
AltReturn(docs) ==
    /\ documents' = docs
    /\ loader_idx' = 0
    /\ pc' = "check_alt"

\* one iteration of the loop of lines 369-379: the loader raises or yields
\* too little (the loop goes on), or its documents are returned
AltTry ==
    /\ pc = "alt_try"
    /\ loader_idx <= Len(AlternativeLoaders)
    /\ calls' = Append(calls, AlternativeLoaders[loader_idx])
    /\ \/ /\ loader_idx' = loader_idx + 1
          /\ alt_results' = Append(alt_results, AltResult(TRUE, <<>>))
          /\ UNCHANGED << documents, pc >>
       \/ \E docs \in LoaderDocuments(file_path) :
            /\ alt_results' = Append(alt_results, AltResult(FALSE, docs))
            /\ IF LoaderAccepted(docs)
               THEN AltReturn(docs)
               ELSE /\ loader_idx' = loader_idx + 1
                    /\ UNCHANGED << documents, pc >>
    /\ UNCHANGED << apart, attempts, file_path, extension, call, page_count, measured,
                    stage_docs, num_pages, page_num, doc_open, tesseract_cmd,
                    pil_images, exc, result, raised, native_docs, ocr_docs,
                    rasterized,
                    ocr_outcome, guard >>

\* AltExhausted leaving the loop after the first loader
AltExhaustedEarly ==
    /\ pc = "alt_try"
    /\ loader_idx > 1
    /\ AltReturn(<<>>)
    /\ UNCHANGED << apart, attempts, file_path, extension, call, page_count, measured,
                    stage_docs, num_pages, page_num, doc_open, tesseract_cmd,
                    pil_images, exc, result, raised, calls,
                    native_docs, ocr_docs, rasterized,
                    probes >>

\* line 381: no loader was accepted
AltExhausted ==
    /\ pc = "alt_try"
    /\ loader_idx > Len(AlternativeLoaders)
    /\ AltReturn(<<>>)
    /\ UNCHANGED << apart, attempts, file_path, extension, call, page_count, measured,
                    stage_docs, num_pages, page_num, doc_open, tesseract_cmd,
                    pil_images, exc, result, raised, calls,
                    native_docs, ocr_docs, rasterized,
                    probes >>

-----------------------------------------------------------------------------
(* DocumentLoader.get_page_count *)

ParagraphsPerPage == 30
WordsPerPage == 500

Max(a, b) == IF a >= b THEN a ELSE b

\* line 413
DocxPageEstimate(paragraphs) == Max(1, paragraphs \div ParagraphsPerPage)

\* TxtPageEstimate rounding up
TxtPageEstimateCeiling(words) ==
    Max(1, (words + WordsPerPage - 1) \div WordsPerPage)

\* line 420
TxtPageEstimate(words) == Max(1, words \div WordsPerPage)

\* get_page_count returns n (None when n = <<>>) having read `what`
PageCountReturn(n, what, size) ==
    /\ page_count' = n
    /\ measured' = [kind |-> what, n |-> size]
    /\ pc' = "done"

\* lines 385-400: len(doc) of the fitz document; if fitz raises, the number
\* of pages PyPDF2 reads; if that raises too, None
PdfPageCount ==
    /\ extension = Pdf
    /\ \/ \E n \in 0..MaxPages : PageCountReturn(<< n >>, "fitz pages", n)
       \/ \E n \in 0..MaxPages : PageCountReturn(<< n >>, "PyPDF2 pages", n)
       \/ PageCountReturn(None, "error", 0)

\* lines 401-407: the number of slides, None if python-pptx raises
PptxPageCount ==
    /\ extension = Pptx
    /\ \/ \E n \in 0..MaxPages : PageCountReturn(<< n >>, "slides", n)
       \/ PageCountReturn(None, "error", 0)

\* lines 408-415
DocxPageCount ==
    /\ extension = Docx
    /\ \/ \E p \in 0..MaxParagraphs :
            PageCountReturn(<< DocxPageEstimate(p) >>, "paragraphs", p)
       \/ PageCountReturn(None, "error", 0)

\* lines 416-422
TxtPageCount ==
    /\ extension = Txt
    /\ \/ \E w \in 0..MaxWords :
            PageCountReturn(<< TxtPageEstimate(w) >>, "words", w)
       \/ PageCountReturn(None, "error", 0)

\* lines 423-424
OtherPageCount ==
    /\ extension \notin {Pdf, Pptx, Docx, Txt}
    /\ PageCountReturn(None, "unsupported", 0)

GetPageCount ==
    /\ call = "get_page_count" /\ pc = "start"
    /\ \/ PdfPageCount
       \/ PptxPageCount
       \/ DocxPageCount
       \/ TxtPageCount
       \/ OtherPageCount
    /\ UNCHANGED << apart, file_path, extension, call >>
    /\ UNCHANGED loader_vars

-----------------------------------------------------------------------------
(* upload_document of app/main.py and add_to_vector_store of
   app/vector_store.py. Requests are served one after the other. A chunk is
   the text the splitter cut out of the document, written as the file's name
   and the chunk's number. *)

\* file.filename of the requests
UploadNames == { <<"a", ".", "p", "d", "f">>, <<"b", ".", "t", "x", "t">> }

Digits == << "0", "1", "2", "3", "4", "5", "6", "7", "8", "9" >>

\* an int formatted in an f-string
RECURSIVE Decimal(_)
Decimal(n) ==
    IF n < 10 THEN << Digits[n + 1] >>
    ELSE Decimal(n \div 10) \o << Digits[(n % 10) + 1] >>

\* what chunk_text returns for the text of file `name`: n chunks
Chunks(name, n) == [i \in 1..n |-> name \o << "#" >> \o Decimal(i)]

\* ChunkIds naming a chunk after its text
ChunkIdsByText(chunks) ==
    [i \in 1..Len(chunks) |-> << "c", "h", "u", "n", "k", "_" >> \o chunks[i]]

\* vector_store line 34: [f"chunk_{i}" for i in range(len(chunks))]
ChunkIds(chunks) ==
    [i \in 1..Len(chunks) |->
        << "c", "h", "u", "n", "k", "_" >> \o Decimal(i - 1)]

\* d[k] = v on a dict
Put(d, k, v) == [x \in (DOMAIN d) \cup {k} |-> IF x = k THEN v ELSE d[x]]

\* the guarded stages of the handler before add_to_vector_store, in order,
\* with the response of each one's except clause
UploadStages ==
    << [name |-> "makedirs",  status |-> 500,
        error |-> "Failed to create upload directory"],
       [name |-> "save",      status |-> 500, error |-> "Failed to save file"],
       [name |-> "load",      status |-> 400, error |-> "Document loading failed"],
       [name |-> "text",      status |-> 500, error |-> "Failed to extract text"],
       [name |-> "summarize", status |-> 500, error |-> "Summarization failed"],
       [name |-> "chunk",     status |-> 500, error |-> "Chunking failed"] >>

StageNames == [i \in DOMAIN UploadStages |-> UploadStages[i].name]

\* the application when requests are served
UploadInit ==
    /\ file_path \in {<<"a", ".", "p", "d", "f">>}
    /\ extension = Lower(SplitExt(file_path))
    /\ call = "upload_document"
    /\ Idle
    /\ Unserved
    /\ arg = <<>>
    /\ machine = [at_path |-> FALSE, in_path |-> FALSE]
    /\ runs = <<>>

\* a request arrives (lines 661-666)
UploadReceive ==
    /\ upload.pc \in {"idle", "done"}
    /\ upload.number < MaxUploads
    /\ \E name \in UploadNames :
         upload' = [NoUpload EXCEPT !.pc = "stage",
                                    !.number = upload.number + 1,
                                    !.filename = name,
                                    !.before = doc_chunks]
    /\ UNCHANGED << doc_chunks, collection, model, added >>

\* the next of the try blocks of lines 667-712: its statement raises and the
\* except clause returns the stage's error response, or it completes; the
\* last one is chunk_text, which returns the chunks
UploadStage ==
    /\ upload.pc = "stage"
    /\ LET stage == UploadStages[Len(upload.stages) + 1]
       IN  \/ upload' = [upload EXCEPT
                            !.pc = "done",
                            !.response = [status |-> stage.status,
                                          error  |-> stage.error]]
           \/ /\ Len(upload.stages) + 1 < Len(UploadStages)
              /\ upload' = [upload EXCEPT !.stages = Append(@, stage.name)]
           \/ /\ Len(upload.stages) + 1 = Len(UploadStages)
              /\ \E n \in 0..MaxChunks :
                   upload' = [upload EXCEPT
                                !.stages = Append(@, stage.name),
                                !.chunks = Chunks(upload.filename, n),
                                !.pc = "vector"]
    /\ UNCHANGED << doc_chunks, collection, model, added >>

\* add_to_vector_store returns to the handler (lines 715-716), having ended
\* as `how`
VectorReturn(how) ==
    upload' = [upload EXCEPT !.pc = "record", !.vector = how]

\* AddToVectorStore without the except clause of line 37: an exception of
\* encode or of collection.add reaches the handler's except clause of line
\* 717, which returns an error response
AddToVectorStoreRaises ==
    LET VectorRaise ==
            upload' = [upload EXCEPT
                         !.pc = "done",
                         !.vector = "failed",
                         !.response = [status |-> 500,
                                       error |-> "Vector store addition failed"]]
    IN
    /\ upload.pc = "vector"
    /\ IF upload.chunks = <<>>
       THEN /\ VectorReturn("no chunks")
            /\ UNCHANGED << collection, model, added >>
       ELSE \/ /\ model = None
               /\ model' = None
               /\ VectorReturn("no model")
               /\ UNCHANGED << collection, added >>
            \/ /\ model' = << "all-MiniLM-L6-v2" >>
               /\ \/ /\ VectorRaise
                     /\ UNCHANGED << collection, added >>
                  \/ LET ids   == ChunkIds(upload.chunks)
                         fresh == { i \in DOMAIN ids : ids[i] \notin DOMAIN collection }
                     IN  /\ added' = Append(added, [filename |-> upload.filename,
                                                    ids |-> ids])
                         /\ \/ /\ fresh # DOMAIN ids
                               /\ VectorRaise
                               /\ UNCHANGED collection
                            \/ /\ collection' =
                                    [x \in (DOMAIN collection) \cup
                                           { ids[i] : i \in fresh } |->
                                        IF x \in DOMAIN collection
                                        THEN collection[x]
                                        ELSE upload.chunks[
                                               CHOOSE i \in fresh : ids[i] = x]]
                               /\ VectorReturn("added")
    /\ UNCHANGED doc_chunks

\* add_to_vector_store (vector_store lines 24-39): nothing to do without
\* chunks; get_model loads the model on first use and returns None if that
\* fails; encode raises, or the ids are made and collection.add is called.
\* Chroma raises on an id it already holds, or skips that id, depending on
\* its version; every exception ends in the except clause of line 37.
AddToVectorStore ==
    /\ upload.pc = "vector"
    /\ IF upload.chunks = <<>>
       THEN /\ VectorReturn("no chunks")
            /\ UNCHANGED << collection, model, added >>
       ELSE \/ /\ model = None
               /\ model' = None
               /\ VectorReturn("no model")
               /\ UNCHANGED << collection, added >>
            \/ /\ model' = << "all-MiniLM-L6-v2" >>
               /\ \/ /\ VectorReturn("failed")
                     /\ UNCHANGED << collection, added >>
                  \/ LET ids   == ChunkIds(upload.chunks)
                         fresh == { i \in DOMAIN ids : ids[i] \notin DOMAIN collection }
                     IN  /\ added' = Append(added, [filename |-> upload.filename,
                                                    ids |-> ids])
                         /\ \/ /\ fresh # DOMAIN ids
                               /\ VectorReturn("failed")
                               /\ UNCHANGED collection
                            \/ /\ collection' =
                                    [x \in (DOMAIN collection) \cup
                                           { ids[i] : i \in fresh } |->
                                        IF x \in DOMAIN collection
                                        THEN collection[x]
                                        ELSE upload.chunks[
                                               CHOOSE i \in fresh : ids[i] = x]]
                               /\ VectorReturn("added")
    /\ UNCHANGED doc_chunks

\* lines 722-733: the chunks are kept under the file's name and the summary
\* is returned
UploadRecord ==
    /\ upload.pc = "record"
    /\ doc_chunks' = << Put(IF doc_chunks = <<>> THEN << >> ELSE doc_chunks[1],
                            upload.filename, upload.chunks) >>
    /\ upload' = [upload EXCEPT
                     !.pc = "done",
                     !.response = [status |-> 200, filename |-> upload.filename]]
    /\ UNCHANGED << collection, model, added >>

UploadNext ==
    /\ call = "upload_document"
    /\ \/ UploadReceive
       \/ UploadStage
       \/ AddToVectorStore
       \/ UploadRecord
    /\ UNCHANGED << file_path, extension, call, arg, ret, machine, runs >>
    /\ UNCHANGED << pc, page_count, measured >>
    /\ UNCHANGED loader_vars

UploadSpec == UploadInit /\ [][UploadNext]_vars

-----------------------------------------------------------------------------
(* Specification *)

Next ==
    \/ LoadPdf
    \/ LoadSingle
    \/ LoadUnsupported
    \/ LoadExcept
    \/ MuOpen
    \/ MuPage
    \/ MuClose
    \/ CheckNative
    \/ OcrProbe
    \/ OcrConvert
    \/ OcrPreprocess
    \/ OcrRecognize
    \/ OcrKeep
    \/ OcrDone
    \/ CheckOcr
    \/ AltTry
    \/ AltExhausted
    \/ CheckAlt
    \/ GetPageCount

\* The program when only the libraries fail: every exception is raised inside
\* a stage function or a loader, so the except clause of line 82 is never
\* reached.
Spec == Init /\ [][Next]_vars

\* The program when, in addition, a statement of the try body of
\* _load_pdf_with_ocr raises outside the stage functions.
GuardNext ==
    \/ Next
    \/ ControllerFault
    \/ PdfExcept

GuardSpec == Init /\ [][GuardNext]_vars

-----------------------------------------------------------------------------
(* Properties *)

\* C1: for a PDF whose native extraction produced more than 50 characters in
\* total (the lengths of its units added up), the native stage is the only
\* stage function or loader ever invoked (neither the OCR stage nor an
\* alternative loader), and load returns the native extraction's units.
C1_NativeTextSkipsOcr ==
    LET RECURSIVE Chars(_)
        Chars(docs) == IF docs = <<>> THEN 0
                       ELSE Len(Head(docs).page_content) + Chars(Tail(docs))
    IN  (extension = Pdf /\ call = "load" /\ Chars(native_docs) > 50)
        => /\ \A i \in DOMAIN calls : calls[i] = "pymupdf"
           /\ pc \in {"check_native", "done"}
           /\ pc = "done" => result = native_docs
           /\ ~raised

\* load has returned the two units of a native extraction of more than 50
\* characters
C1_Witness ==
    /\ extension = Pdf /\ call = "load" /\ pc = "done"
    /\ Len(native_docs) = 2
    /\ Len(native_docs[1].page_content) + Len(native_docs[2].page_content) > 50
    /\ result = native_docs
    /\ calls = << "pymupdf" >>

\* C2: for a .docx, .pptx or .txt file load never raises to its caller, and
\* when the format's loader failed load returns exactly one unit, whose
\* content carries the error message and whose metadata marks it as an error.
C2_SingleLoaderFailureIsOneErrorUnit ==
    (extension \in {Docx, Pptx, Txt} /\ call = "load")
    => /\ ~raised
       /\ (pc = "done" /\ exc # <<>>)
          => /\ Len(result) = 1
             /\ result[1].page_content = ErrorPrefix \o exc \o ErrorSuffix
             /\ "error" \in DOMAIN result[1].metadata
             /\ result[1].metadata.error = exc
             /\ "method" \notin DOMAIN result[1].metadata

\* load has returned after the loader of a .docx file raised
C2_Witness ==
    /\ extension = Docx /\ call = "load" /\ pc = "done"
    /\ exc \in LibraryErrors
    /\ Len(result) = 1

\* C3: when the OCR engine cannot be resolved (no executable at the
\* well-known path or in PATH, or the version probe fails) the OCR stage
\* returns no unit and rasterizes nothing, and the controller goes on to the
\* alternative loaders, the first of which is the next thing invoked; nothing
\* is raised and no except clause of the controller or of load is entered.
C3_UnresolvedEngineSkipsToLoaders ==
    ocr_outcome.engine \in {"no executable", "version probe failed"}
    => /\ ~rasterized
       /\ ocr_docs = <<>>
       /\ ocr_outcome.how = "unresolved"
       /\ ~raised
       /\ exc = <<>>
       /\ guard = "not entered"
       /\ pc \in {"check_ocr", "alt_try", "check_alt", "done"}
       /\ pc \in {"check_alt", "done"}
          => /\ Len(calls) >= 3
             /\ calls[2] = "ocr"
             /\ calls[3] = AlternativeLoaders[1]

\* the version probe failed and load has returned what an alternative loader
\* found
C3_Witness ==
    /\ ocr_outcome.engine = "version probe failed"
    /\ pc = "done"
    /\ ~rasterized
    /\ alt_results # <<>>
    /\ ~alt_results[Len(alt_results)].raised
    /\ alt_results[Len(alt_results)].chars > LoaderAcceptChars

C5_PlaceholderIsLastResort ==
    ( /\ call = "load" /\ pc = "done"
      /\ \E i \in DOMAIN result :
            /\ "method" \in DOMAIN result[i].metadata
            /\ result[i].metadata.method = "placeholder" )
    => /\ Len(result) = 1
       /\ result[1].page_content = PlaceholderMessage
       /\ result[1].metadata.page = 1
       /\ result[1].metadata.source = file_path
       /\ calls[1] = "pymupdf"
       /\ Len(Strip(TotalText(native_docs))) <= 50
       /\ ocr_docs = <<>>
       /\ Len(alt_results) = 3
       /\ \A i \in DOMAIN alt_results :
            alt_results[i].raised \/ alt_results[i].chars <= 10

\* the placeholder was returned after one alternative loader raised and
\* another yielded a few characters
C5_Witness ==
    /\ call = "load" /\ pc = "done"
    /\ Len(result) = 1
    /\ "method" \in DOMAIN result[1].metadata
    /\ result[1].metadata.method = "placeholder"
    /\ \E i \in DOMAIN alt_results : alt_results[i].raised
    /\ \E i \in DOMAIN alt_results : alt_results[i].chars > 0

\* C6, as stated: when the except clause of the controller was entered and
\* the PyPDFLoader fallback raised too, the exception reaches the caller of
\* load.
C6_FallbackFailurePropagates ==
    (call = "load" /\ pc = "done" /\ guard = "fallback raised") => raised

\* C6, amended: the exception of the failing fallback leaves
\* _load_pdf_with_ocr only; load catches it and returns exactly one error
\* unit carrying its message. No path raises to the caller of load.
C6_FallbackFailureIsAbsorbed ==
    /\ ~raised
    /\ (call = "load" /\ pc = "done" /\ guard = "fallback raised")
       => /\ exc \in LibraryErrors
          /\ Len(result) = 1
          /\ result[1].page_content = ErrorPrefix \o exc \o ErrorSuffix
          /\ "error" \in DOMAIN result[1].metadata
          /\ result[1].metadata.error = exc

\* load has returned after the fallback of line 85 raised
C6_Witness ==
    /\ call = "load" /\ pc = "done"
    /\ guard = "fallback raised"
    /\ calls[Len(calls)] = "fallback:PyPDFLoader"
    /\ Len(result) = 1

\* C7, as stated: whenever load returns without raising, its result is not
\* the empty list.
C7_ResultNeverEmpty ==
    (call = "load" /\ pc = "done" /\ ~raised) => result # <<>>

\* C8, as stated: every unit load returns carries a method label, one of
\* native, OCR, the name of an alternative loader, placeholder, error.
C8_EveryUnitHasMethod ==
    (call = "load" /\ pc = "done")
    => \A i \in DOMAIN result :
          /\ "method" \in DOMAIN result[i].metadata
          /\ result[i].metadata.method \in
                {"native", "OCR", "placeholder", "error"} \cup
                { AlternativeLoaders[k] : k \in DOMAIN AlternativeLoaders }

\* C9, as stated: get_page_count returns None or an integer that is at
\* least 1.
C9_PageCountPositiveOrNone ==
    (call = "get_page_count" /\ pc = "done")
    => (page_count = None \/ page_count[1] >= 1)

\* C10: on a readable .txt file of w words get_page_count returns
\* max(1, floor(w/500)), so 1 for 0..999 words and 2 for 1000 words; on a
\* readable .docx of p paragraphs it returns max(1, floor(p/30)).
C10_PageEstimates ==
    (call = "get_page_count" /\ pc = "done"
        /\ measured.kind \in {"words", "paragraphs"})
    => LET per == IF measured.kind = "words" THEN 500 ELSE 30
           n   == measured.n
           r   == page_count[1]
       IN  /\ extension = (IF measured.kind = "words" THEN Txt ELSE Docx)
           /\ Len(page_count) = 1
           /\ r >= 1
           /\ n < 2 * per => r = 1
           /\ n >= per => (r * per <= n /\ n < (r + 1) * per)
           /\ n = 2 * per => r = 2

\* 1000 words are estimated as 2 pages
C10_Witness ==
    /\ call = "get_page_count" /\ pc = "done"
    /\ extension = Txt
    /\ measured = [kind |-> "words", n |-> 1000]
    /\ page_count = << 2 >>

\* C13: when the attempts on a page are over, the text kept for the page is
\* the cleaned text of an attempt of maximal length among the attempts that
\* returned on that page, whatever was kept for the pages before; it is the
\* empty text when no attempt returned a non-empty text.
C13_BestAttemptOfThePage ==
    pc = "ocr_keep"
    => LET lengths == { Len(Strip(t)) : t \in attempts.texts } \cup {0}
           top     == CHOOSE n \in lengths : \A m \in lengths : m <= n
       IN  /\ attempts.page = page_num + 1
           /\ attempts.best.length = top
           /\ Len(Strip(attempts.best.text)) = top
           /\ top > 0 => attempts.best.text \in attempts.texts
           /\ top = 0 => attempts.best = NoBest

\* on the second page one attempt returned 5 characters and the others
\* nothing, after a first page for which 15 characters were kept
C13_Witness ==
    /\ pc = "ocr_keep"
    /\ attempts.page = 2
    /\ Len(stage_docs) = 1
    /\ Len(stage_docs[1].page_content) = 15
    /\ { Len(t) : t \in attempts.texts } = {0, 5}
    /\ attempts.best.length = 5

\* C14: a page of the OCR stage adds a unit exactly when the best length of
\* the page exceeds 10, the unit then holding the stripped best text under
\* the page's 1-based number; otherwise the page adds nothing. Every unit of
\* the OCR stage has more than 10 characters.
C14_ShortPagesAddNoUnit ==
    /\ [](/\ \A i \in DOMAIN ocr_docs : Len(ocr_docs[i].page_content) > 10
          /\ pc \in {"ocr_page", "ocr_recognize", "ocr_keep"}
             => \A i \in DOMAIN stage_docs :
                    Len(stage_docs[i].page_content) > 10)
    /\ [][pc = "ocr_keep"
          => IF attempts.best.length > 10
             THEN /\ Len(stage_docs') = Len(stage_docs) + 1
                  /\ SubSeq(stage_docs', 1, Len(stage_docs)) = stage_docs
                  /\ stage_docs'[Len(stage_docs')] =
                        [page_content |-> Strip(attempts.best.text),
                         metadata |-> [page |-> attempts.page,
                                       source |-> file_path,
                                       method |-> "OCR"]]
             ELSE stage_docs' = stage_docs]_vars

\* the first page was recognized with at most 10 characters and added
\* nothing; the second page added its unit
C14_Witness ==
    /\ pc = "ocr_page"
    /\ page_num = 2
    /\ Len(stage_docs) = 1
    /\ stage_docs[1].metadata.page = 2
    /\ stage_docs[1].metadata.method = "OCR"

\* C11: _clean_ocr_text is idempotent: cleaning what it returned returns the
\* same text.
C11_CleanerIsIdempotent ==
    (call = "_clean_ocr_text" /\ Len(ret) = 2) => ret[2] = ret[1]

\* a text whose cleaning changed it ("r1rn" becomes "rIm") was cleaned twice
C11_Witness ==
    /\ call = "_clean_ocr_text"
    /\ arg = << "r", "1", "r", "n" >>
    /\ Len(ret) = 2
    /\ ret[1] = << "r", "I", "m" >>

\* C12: _preprocess_image_for_ocr returns a non-empty list of images for
\* every image, all-black and all-white ones included, and every combination
\* of failures of the grayscale step, the thresholdings and the closings:
\* the image itself when the first step fails, otherwise one or two images
\* for the grayscale image and for each thresholding that succeeded.
C12_PreprocessorReturnsVariants ==
    (call = "_preprocess_image_for_ocr" /\ ret # <<>>)
    => LET variants == ret[1]
           made     == 4 - Cardinality(arg.how.thresh)
       IN  /\ variants # <<>>
           /\ arg.how.step1 => variants = << arg.image >>
           /\ ~arg.how.step1
              => /\ Len(variants) >= made
                 /\ Len(variants) <= 2 * made
                 /\ \A i \in DOMAIN variants :
                       SubSeq(variants[i], 1, Len(arg.image)) = arg.image

\* every thresholding failed on an all-black image and so did the small
\* closing of the grayscale image: that image is the one variant returned
C12_Witness ==
    /\ call = "_preprocess_image_for_ocr"
    /\ arg.image = << "black", "BGR" >>
    /\ ~arg.how.step1
    /\ arg.how.thresh = {1, 2, 3}
    /\ arg.how.morph[1] = "small"
    /\ ret = << << << "black", "BGR", "gray", "denoised" >> >> >>

\* C15: the page numbers of the units load returns are strictly increasing
\* in sequence order, hence pairwise distinct; in the native and in the OCR
\* stage the units collected so far have increasing numbers among the pages
\* already visited, and the unit added for the 0-based page k is numbered
\* k + 1, whether or not earlier pages added a unit.
C15_PageNumbersIncrease ==
    /\ []( /\ (call = "load" /\ pc = "done")
              => \A i, j \in DOMAIN result :
                    ( /\ i < j
                      /\ "page" \in DOMAIN result[i].metadata
                      /\ "page" \in DOMAIN result[j].metadata )
                    => result[i].metadata.page < result[j].metadata.page
           /\ pc \in {"mu_page", "ocr_page", "ocr_recognize", "ocr_keep"}
              => /\ \A i \in DOMAIN stage_docs :
                        /\ stage_docs[i].metadata.page >= 1
                        /\ stage_docs[i].metadata.page <= page_num
                 /\ \A i, j \in DOMAIN stage_docs :
                        i < j => stage_docs[i].metadata.page
                                    < stage_docs[j].metadata.page )
    /\ [][(pc \in {"mu_page", "ocr_keep"} /\ pc' \in {"mu_page", "ocr_page"}
                /\ stage_docs' # stage_docs)
          => /\ Len(stage_docs') = Len(stage_docs) + 1
             /\ stage_docs'[Len(stage_docs')].metadata.page = page_num + 1
             /\ page_num' = page_num + 1]_vars

\* the first page of a PDF gave no text and the second did: load returns the
\* one native unit, numbered 2
C15_Witness ==
    /\ call = "load" /\ pc = "done"
    /\ result = native_docs
    /\ Len(result) = 1
    /\ result[1].metadata.page = 2

\* C16, as stated: a unit load returns with empty content is a placeholder
\* or an error unit; in particular the units of the native stage and of the
\* alternative loaders are not empty.
C16_EmptyContentOnlyInErrorUnits ==
    (call = "load" /\ pc = "done")
    => \A i \in DOMAIN result :
          \/ result[i].page_content # <<>>
          \/ "error" \in DOMAIN result[i].metadata
          \/ /\ "method" \in DOMAIN result[i].metadata
             /\ result[i].metadata.method = "placeholder"

\* C17: the alternative loaders are invoked in the order PDFPlumberLoader,
\* UnstructuredPDFLoader, PyPDFLoader, each after the ones before it raised
\* or yielded at most 10 characters; the stage returns the documents of the
\* first loader yielding more than 10 characters, without invoking another
\* one, and returns no document when all three were skipped.
C17_FirstAcceptedLoaderWins ==
    LET k        == Len(alt_results)
        Fails(i) == alt_results[i].raised \/ alt_results[i].chars <= 10
    IN  k > 0
        => /\ k <= 3
           /\ Len(calls) = 2 + k
           /\ \A i \in 1..k :
                calls[2 + i] = << "PDFPlumberLoader", "UnstructuredPDFLoader",
                                  "PyPDFLoader" >>[i]
           /\ \A i \in 1..(k - 1) : Fails(i)
           /\ pc \in {"alt_try", "check_alt", "done"}
           /\ pc = "alt_try" => (Fails(k) /\ loader_idx = k + 1)
           /\ pc \in {"check_alt", "done"}
              => IF documents # <<>>
                 THEN /\ ~Fails(k)
                      /\ Len(Strip(TotalText(documents))) = alt_results[k].chars
                 ELSE k = 3 /\ Fails(k)
           /\ pc = "done"
              => result = (IF documents # <<>> THEN documents
                           ELSE << PlaceholderDocument(file_path) >>)

\* the first loader raised, the second was accepted and its documents are
\* what the stage returned
C17_Witness ==
    /\ pc = "check_alt"
    /\ Len(alt_results) = 2
    /\ alt_results[1].raised
    /\ alt_results[2].chars > 10
    /\ documents # <<>>
    /\ calls[Len(calls)] = "UnstructuredPDFLoader"

\* C18, as stated: requests running side by side share no variable that one
\* writes and another reads, so the engine each request resolves is the one
\* it resolves when no other request runs.
C18_RunsShareNothing ==
    call = "_extract_text_with_ocr"
    => \A r \in DOMAIN runs :
          /\ runs[r].pc = "version" => tesseract_cmd = runs[r].own
          /\ runs[r].pc = "done" => runs[r].resolved = runs[r].alone

\* C19, as stated: once _extract_text_with_pymupdf has returned, the
\* document it opened is closed.
C19_NativeHandleIsReleased ==
    (call = "load" /\ pc \notin {"start", "mu_open", "mu_page"}) => ~doc_open

\* C20: the stages of a PDF load are invoked in the order native, OCR,
\* alternative loaders, each at most once; the OCR stage is invoked exactly
\* when the native text (the units joined by single spaces, stripped) has at
\* most 50 characters, and the alternative loaders exactly when the OCR stage
\* was invoked and returned no unit; the placeholder comes after all of them.
C20_StagesInOrder ==
    LET order   == << "pymupdf", "ocr", "PDFPlumberLoader",
                      "UnstructuredPDFLoader", "PyPDFLoader" >>
        native  == Len(Strip(TotalText(native_docs)))
        ocr     == \E i \in DOMAIN calls : calls[i] = "ocr"
        loaders == \E i \in DOMAIN calls : calls[i] = "PDFPlumberLoader"
    IN  (extension = Pdf /\ call = "load")
        => /\ Len(calls) <= Len(order)
           /\ \A i \in DOMAIN calls : calls[i] = order[i]
           /\ ocr => native <= 50
           /\ loaders => (ocr /\ ocr_docs = <<>> /\ ocr_outcome.how # "running")
           /\ pc = "done"
              => /\ ocr <=> native <= 50
                 /\ loaders <=> (ocr /\ ocr_docs = <<>>)
                 /\ result = << PlaceholderDocument(file_path) >>
                    => Len(calls) = Len(order)

\* a native text of exactly 50 characters: the OCR stage ran and its units
\* were returned without any alternative loader
C20_Witness ==
    /\ extension = Pdf /\ call = "load" /\ pc = "done"
    /\ Len(Strip(TotalText(native_docs))) = 50
    /\ calls = << "pymupdf", "ocr" >>
    /\ result = ocr_docs
    /\ result # <<>>

\* C21: the search on a page is exhaustive. The step that recognizes a page
\* makes its attempts in the order image 1 under configurations 1..10, image
\* 2 under configurations 1..10, and so on to the last image of the page's
\* list: every pair of an image and a configuration exactly once, whatever
\* lengths were reached on the way. The page recognized is the next page of
\* the file, and the page number advances by one only after the page's
\* attempts are over.
C21_SearchIsExhaustive ==
    /\ Len(OcrConfigs) = 10
    /\ [](pc = "ocr_keep" => attempts.page = page_num + 1 /\ page_num < num_pages)
    /\ [][ /\ (pc = "ocr_recognize" /\ pc' = "ocr_keep")
             => /\ attempts'.tried =
                     [k \in 1..(Len(pil_images) * Len(OcrConfigs)) |->
                         << ((k - 1) \div Len(OcrConfigs)) + 1,
                            ((k - 1) % Len(OcrConfigs)) + 1 >>]
                /\ attempts'.page = page_num + 1
                /\ page_num' = page_num
           /\ (pc = "ocr_page" /\ pc' = "ocr_recognize")
             => page_num' = page_num /\ attempts' = NoAttempts
           /\ pc = "ocr_keep"
             => pc' = "ocr_page" /\ page_num' = page_num + 1
           /\ pc' = "ocr_keep" => pc = "ocr_recognize" ]_vars

\* the second page of a file recognized on 8 images, all 80 attempts made
\* although the first one already returned a text long enough to be kept
C21_Witness ==
    /\ pc = "ocr_keep"
    /\ attempts.page = 2
    /\ Len(attempts.tried) = 80
    /\ attempts.failed = {}
    /\ Cardinality(attempts.texts) = 1
    /\ attempts.best.length > OcrAcceptChars

\* C22: on every page, OCR is run on the original page image as well as on
\* the preprocessed variants.
C22_OriginalImageIsRecognized ==
    pc = "ocr_recognize" => \E i \in DOMAIN pil_images : pil_images[i] = PageImage

\* C23: an attempt that raises is skipped. On a page where attempts raised,
\* every pair of an image and a configuration was still tried, the best text
\* is the one the other attempts alone determine (nothing if all raised),
\* and the stage goes on with the next page, keeping the units it has.
C23_FailedAttemptIsSkipped ==
    /\ [](pc = "ocr_keep" /\ attempts.failed # {}
           => LET lengths == { Len(Strip(t)) : t \in attempts.texts } \cup {0}
                  top     == SetMax(lengths)
              IN  /\ attempts.failed \subseteq
                        { attempts.tried[k] : k \in DOMAIN attempts.tried }
                  /\ Len(attempts.tried) % Len(OcrConfigs) = 0
                  /\ (Cardinality(attempts.failed) = Len(attempts.tried))
                        <=> attempts.texts = {}
                  /\ attempts.best.length = top
                  /\ top > 0 => attempts.best.text \in attempts.texts
                  /\ top = 0 => attempts.best = NoBest)
    /\ [][ /\ (pc = "ocr_recognize" /\ pc' = "ocr_keep")
             => Len(attempts'.tried) = Len(pil_images) * Len(OcrConfigs)
           /\ (pc = "ocr_keep" /\ attempts.failed # {})
             => /\ pc' = "ocr_page"
                /\ page_num' = page_num + 1
                /\ num_pages' = num_pages
                /\ Len(stage_docs') >= Len(stage_docs)
                /\ SubSeq(stage_docs', 1, Len(stage_docs)) = stage_docs
                /\ ocr_outcome' = ocr_outcome ]_vars

\* the first page of two: one attempt returned a text of more than 10
\* characters and every attempt after it raised, the last one included
C23_Witness ==
    /\ pc = "ocr_keep"
    /\ attempts.page = 1
    /\ num_pages = 2
    /\ Len(attempts.tried) > Len(OcrConfigs)
    /\ Cardinality(attempts.failed) = Len(attempts.tried) - 1
    /\ attempts.tried[1] \in attempts.failed
    /\ attempts.tried[Len(attempts.tried)] \in attempts.failed
    /\ attempts.best.length > OcrAcceptChars

\* C24: when the grayscale conversion or the denoising fails,
\* _preprocess_image_for_ocr returns the list holding the image it was given
\* and nothing else. Otherwise a thresholding that fails costs its own
\* variants only: the result holds no image of a failed thresholding, one or
\* two images of every thresholding that succeeded, in the order adaptive,
\* Otsu, fixed, and after them one or two images of the denoised grayscale
\* image.
C24_PreprocessorFailures ==
    (call = "_preprocess_image_for_ocr" /\ ret # <<>>)
    => LET variants == ret[1]
           denoised == arg.image \o << "gray", "denoised" >>
           \* the thresholding an image went through, 0 for none
           Of(img)  == IF Len(img) > Len(denoised) /\
                          \E i \in DOMAIN ThresholdNames :
                              img[Len(denoised) + 1] = ThresholdNames[i]
                       THEN CHOOSE i \in DOMAIN ThresholdNames :
                              img[Len(denoised) + 1] = ThresholdNames[i]
                       ELSE 0
           Count(i) == Cardinality({k \in DOMAIN variants : Of(variants[k]) = i})
       IN  IF arg.how.step1
           THEN variants = << arg.image >>
           ELSE /\ \A k \in DOMAIN variants :
                     /\ Len(variants[k]) >= Len(denoised)
                     /\ SubSeq(variants[k], 1, Len(denoised)) = denoised
                /\ \A i \in DOMAIN ThresholdNames :
                     IF i \in arg.how.thresh THEN Count(i) = 0
                     ELSE Count(i) \in {1, 2}
                /\ Count(0) \in {1, 2}
                /\ \A k \in 1..(Len(variants) - 1) :
                     LET a == Of(variants[k])
                         b == Of(variants[k + 1])
                     IN  a = b \/ (a # 0 /\ (b = 0 \/ a < b))

\* the grayscale step failed on an all-white image on which the Otsu
\* thresholding would have failed too: the image comes back alone
C24_Witness ==
    /\ call = "_preprocess_image_for_ocr"
    /\ arg.image = << "white", "BGR" >>
    /\ arg.how.step1
    /\ arg.how.thresh = {2}
    /\ ret = << << << "white", "BGR" >> >> >>

\* C25: a stage function that fails returns the empty list and the
\* controller goes on. Whenever fitz raised (at open or on a page), the
\* engine probe, the rasterization or a page's conversion raised, or a
\* loader raised, the stage's result is empty or the loop went on to the next
\* loader, the next stage is called, and neither the except clause of line 82
\* nor the one of load is entered.
C25_StageFailuresAreAbsorbed ==
    /\ []((call = "load" /\ extension = Pdf)
           => LET Called(name) == \E i \in DOMAIN calls : calls[i] = name
              IN
              /\ guard = "not entered"
              /\ pc \notin {"pdf_except", "load_except"}
              /\ exc = <<>>
              /\ ~raised
              /\ ocr_outcome.how \in {"unresolved", "convert failed", "page failed"}
                   => /\ ocr_docs = <<>>
                      /\ pc = "check_ocr" => documents = <<>>
                      /\ (pc \in {"check_alt", "done"} \/ loader_idx > 1)
                           => Called(AlternativeLoaders[1])
              /\ (doc_open /\ pc # "mu_page")
                   => /\ native_docs = <<>>
                      /\ pc \notin {"check_native", "ocr_probe"}
                           => Called("ocr")
              /\ (pc = "done" /\ Len(alt_results) = Len(AlternativeLoaders)
                                /\ \A i \in DOMAIN alt_results : alt_results[i].raised)
                   => result = << PlaceholderDocument(file_path) >>)
    /\ [][ /\ (pc = "mu_open" /\ pc' # "mu_page")
             => pc' = "check_native" /\ documents' = <<>>
           /\ (pc = "mu_page" /\ page_num < num_pages /\ pc' # "mu_page")
             => pc' = "check_native" /\ documents' = <<>>
           /\ (pc = "check_native" /\ documents = <<>>) => pc' = "ocr_probe"
           /\ (pc \in {"ocr_probe", "ocr_convert"} /\ pc' = "check_ocr")
             => documents' = <<>>
           /\ (pc = "check_ocr" /\ documents = <<>>) => pc' = "alt_try"
           /\ (pc = "alt_try" /\ Len(alt_results') > Len(alt_results)
                              /\ alt_results'[Len(alt_results')].raised)
             => pc' = "alt_try" /\ loader_idx' = loader_idx + 1
           /\ (pc = "check_alt" /\ documents = <<>>)
             => result' = << PlaceholderDocument(file_path) >> ]_vars

\* every stage failed: fitz raised on a page, convert_from_path raised, the
\* three loaders raised; load returned the placeholder
C25_Witness ==
    /\ pc = "done"
    /\ call = "load"
    /\ doc_open
    /\ ocr_outcome.how = "convert failed"
    /\ Len(alt_results) = 3
    /\ \A i \in DOMAIN alt_results : alt_results[i].raised
    /\ result = << PlaceholderDocument(file_path) >>
    /\ guard = "not entered"

\* C26: an exception on page k of the OCR stage, outside the attempts, or on
\* page k of the native stage ends the stage with the empty list: the units
\* of the pages before k are not returned.
C26_PageFailureDropsUnits ==
    /\ [](ocr_outcome.how = "page failed"
           => /\ ocr_docs = <<>>
              /\ pc = "check_ocr" => documents = <<>>
              /\ ocr_outcome.units <= ocr_outcome.pages)
    /\ [][ /\ (pc = "ocr_page" /\ page_num < num_pages /\ pc' = "check_ocr")
             => /\ documents' = <<>>
                /\ ocr_docs' = <<>>
                /\ ocr_outcome'.how = "page failed"
                /\ ocr_outcome'.pages = page_num
                /\ ocr_outcome'.units = Len(stage_docs)
           /\ (pc = "mu_page" /\ page_num < num_pages /\ pc' = "check_native")
             => /\ documents' = <<>>
                /\ native_docs' = <<>> ]_vars

\* the conversion of the second page raised after the first page had given
\* a unit: the stage returned nothing
C26_Witness ==
    /\ pc = "check_ocr"
    /\ ocr_outcome.how = "page failed"
    /\ ocr_outcome.pages = 1
    /\ ocr_outcome.units = 1
    /\ documents = <<>>
    /\ ocr_docs = <<>>

\* C27: what _clean_ocr_text returns has none of the characters | 0 1 l,
\* neither "rn" nor "vv", no newline or tab and no two spaces in a row nor a
\* space at either end; it is empty, or it is the whole text with its
\* whitespace collapsed and the replacements made, and then has more than 2
\* characters.
C27_CleanedTextIsNormalized ==
    (call = "_clean_ocr_text" /\ ret # <<>>)
    => LET out        == ret[1]
           normalized == FixOcrErrors(Join(<<" ">>, SplitWhitespace(arg)))
       IN  /\ \A k \in DOMAIN out : out[k] \notin {"|", "0", "1", "l", "\n", "\t"}
           /\ \A k \in 1..(Len(out) - 1) :
                 << out[k], out[k + 1] >> \notin
                    { <<"r", "n">>, <<"v", "v">>, <<" ", " ">> }
           /\ out # <<>> => out[1] # " " /\ out[Len(out)] # " "
           /\ out = <<>> \/ (out = normalized /\ Len(out) > 2)

\* "1rn0" comes back as "ImO": the 1 became l and then I
C27_Witness ==
    /\ call = "_clean_ocr_text"
    /\ arg = <<"1", "r", "n", "0">>
    /\ ret # <<>>
    /\ ret[1] = <<"I", "m", "O">>

\* C28: among the attempts of a page that returned a text, taken image by
\* image and, on each image, configuration by configuration, the page's best
\* text is the cleaned text of the first attempt whose stripped length is the
\* greatest; attempts of the same length that come later do not replace it.
C28_FirstOfTiesWins ==
    (call = "recognize" /\ ret # <<>>)
    => LET best       == ret[1].best
           configs    == Len(OcrConfigs)
           Outcome(k) == ImageToString(arg.engine, ((k - 1) \div configs) + 1,
                                                   ((k - 1) % configs) + 1)
           Cleaned(k) == clean_ocr_text(Outcome(k).text)
           returned   == { k \in 1..(arg.images * configs) : ~Outcome(k).raises }
           top        == SetMax({ Len(Strip(Cleaned(k))) : k \in returned } \cup {0})
           first      == SetMin({ k \in returned : Len(Strip(Cleaned(k))) = top })
       IN  IF top = 0 THEN best = NoBest
           ELSE best = [text |-> Cleaned(first), length |-> top]

\* one image: configurations 1 to 9 return "ab 1l" and configuration 10
\* returns "cd", newline, "1l"; both clean to 5 characters and the first is kept
C28_Witness ==
    /\ call = "recognize"
    /\ arg.images = 1
    /\ arg.engine.at = << 1, 10 >>
    /\ arg.engine.base = [raises |-> FALSE, text |-> <<"a", "b", " ", "1", "l">>]
    /\ arg.engine.special = [raises |-> FALSE, text |-> <<"c", "d", "\n", "1", "l">>]
    /\ ret # <<>>
    /\ ret[1].best = [text |-> <<"a", "b", " ", "I", "I">>, length |-> 5]

\* C29: app.state.doc_chunks changes only in the step that follows
\* add_to_vector_store, when the six stages before it have completed. A
\* request answered with an error leaves doc_chunks as it found it; a request
\* whose add_to_vector_store failed or had no model is answered with the
\* summary and has its chunks under its file name, the other names keeping
\* theirs.
C29_ChunksRecordedAfterAllStages ==
    /\ [](upload.pc = "done"
           => IF upload.response.status = 200
              THEN /\ upload.stages = StageNames
                   /\ upload.vector # "not called"
                   /\ doc_chunks # <<>>
                   /\ DOMAIN doc_chunks[1] =
                        (IF upload.before = <<>> THEN {}
                         ELSE DOMAIN upload.before[1]) \cup {upload.filename}
                   /\ \A k \in DOMAIN doc_chunks[1] :
                        doc_chunks[1][k] = IF k = upload.filename
                                           THEN upload.chunks
                                           ELSE upload.before[1][k]
              ELSE /\ doc_chunks = upload.before
                   /\ Len(upload.stages) < Len(StageNames)
                   /\ upload.vector = "not called")
    /\ []((upload.pc = "done" /\ upload.vector \in {"failed", "no model"})
           => upload.response.status = 200)
    /\ [][ doc_chunks' # doc_chunks
             => /\ upload.pc = "record"
                /\ upload.stages = StageNames
                /\ upload'.response.status = 200 ]_vars

\* the first request failed in a stage and left no doc_chunks; the second
\* one, whose add_to_vector_store failed, recorded its two chunks
C29_Witness ==
    /\ upload.pc = "done"
    /\ upload.number = 2
    /\ upload.before = <<>>
    /\ upload.vector = "failed"
    /\ upload.response.status = 200
    /\ Len(upload.chunks) = 2
    /\ doc_chunks = << Put(<< >>, upload.filename, upload.chunks) >>

\* C30: the ids of a call of add_to_vector_store are chunk_0, chunk_1, ...
\* by position, whatever the document. Any two calls that reached
\* collection.add share the ids of the shorter one, so the collection never
\* holds more ids than the longest list of chunks had.
C30_ChunkIdsCollide ==
    /\ \A i \in DOMAIN added :
          /\ added[i].ids # <<>>
          /\ \A k \in DOMAIN added[i].ids :
                added[i].ids[k] = << "c", "h", "u", "n", "k", "_" >> \o Decimal(k - 1)
    /\ \A i \in DOMAIN added : \A j \in DOMAIN added :
          i # j
          => LET a == { added[i].ids[k] : k \in DOMAIN added[i].ids }
                 b == { added[j].ids[k] : k \in DOMAIN added[j].ids }
             IN  /\ Cardinality(a) = Len(added[i].ids)
                 /\ Cardinality(a \cap b) =
                      IF Len(added[i].ids) <= Len(added[j].ids)
                      THEN Len(added[i].ids) ELSE Len(added[j].ids)
    /\ \A x \in DOMAIN collection :
          \E i \in DOMAIN added : \E k \in DOMAIN added[i].ids :
             added[i].ids[k] = x
    /\ added # <<>>
          => Cardinality(DOMAIN collection) <=
                SetMax({ Len(added[i].ids) : i \in DOMAIN added })

\* two documents, of two chunks and of one: both calls used chunk_0, and the
\* collection still holds the first document's chunk under it
C30_Witness ==
    /\ Len(added) = 2
    /\ added[1].filename # added[2].filename
    /\ Len(added[1].ids) = 2
    /\ added[2].ids = << << "c", "h", "u", "n", "k", "_", "0" >> >>
    /\ upload.pc = "done"
    /\ upload.vector = "added"
    /\ DOMAIN collection = { added[1].ids[1], added[1].ids[2] }
    /\ collection[added[2].ids[1]] = Chunks(added[1].filename, 2)[1]

=============================================================================
